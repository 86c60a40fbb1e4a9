-------------------------- MODULE StreamDataProofs --------------------------
(***************************************************************************)
(* One direction of a stream is a byte stream, for every size of the       *)
(* queues, of the pipe and of the frames.                                  *)
(*                                                                         *)
(* The bytes under way form a chain: what was read, the pipe, the message  *)
(* the pump is writing, the channel, the transport and the data queue hold *)
(* consecutive chunks, each place beginning where the one before it ends.  *)
(* The chain is cut behind the pump once it has stopped, and behind the    *)
(* channel once the stream is removed: nothing passes there any more.      *)
(***************************************************************************)
EXTENDS StreamData, TLAPS

\* The pieces of q follow one another from offset e on.
Contig(q, e) ==
  \A i \in 1 .. Len(q) :
    q[i].lo = (IF i = 1 THEN e ELSE q[i - 1].hi) /\ q[i].lo <= q[i].hi

ReadEnd == End(app.got, 0)
PipeEnd == End(app.pipe, ReadEnd)
PumpEndAt == End(rcv.cur, PipeEnd)

Pieces(q) == {q[i] : i \in 1 .. Len(q)}

\* Every piece of q was written, and a FIN has no bytes.
Sound(q) ==
  \A m \in Pieces(q) :
    m.lo <= m.hi /\ m.hi <= snd.next /\ (m.kind = "fin" => m.lo = m.hi)

\* The FINs in q stand behind every byte written before the writer's FIN.
FinsLast(q) == \A m \in Pieces(q) : m.kind = "fin" => snd.fin /\ m.lo >= snd.upto

ReadChain ==
  /\ Contig(app.got, 0) /\ Contig(app.pipe, ReadEnd)
  /\ \A c \in Pieces(app.pipe) : c.hi <= PipeEnd
  /\ PipeEnd <= snd.next

PumpChain ==
  /\ Contig(rcv.cur, PipeEnd) /\ Contig(rcv.chan, PumpEndAt)
  /\ End(rcv.chan, PumpEndAt) = rcv.in /\ PumpEndAt <= rcv.in
  /\ \A m \in Pieces(rcv.chan) : m.hi <= rcv.in

WireChain == Contig(wire, rcv.in) /\ End(wire, rcv.in) = snd.out

QueueChain == Contig(snd.data, snd.out) /\ End(snd.data, snd.out) = snd.next

Chain ==
  /\ ReadChain /\ QueueChain
  /\ Sound(snd.data) /\ Sound(wire) /\ Sound(rcv.chan) /\ Sound(rcv.cur)
  /\ rcv.pump = "run" => PumpChain /\ (rcv.slot => WireChain)

Pump ==
  /\ rcv.pump # "run" => rcv.chan = << >> /\ rcv.cur = << >>
  /\ rcv.cur # << >> => Len(rcv.cur) = 1 /\ rcv.cur[1].kind = "data"
  /\ rcv.pump = "off" => broken \/ app.gone
  /\ ~rcv.slot => broken
  /\ snd.rst => broken
  /\ app.eof => app.pipe = << >> /\ rcv.pump # "run"

FinPlaces ==
  ~broken =>
    /\ FinsLast(snd.data) /\ FinsLast(wire) /\ FinsLast(rcv.chan)
    /\ rcv.late => snd.fin /\ rcv.in >= snd.upto
    /\ rcv.pump = "fin" => snd.fin /\ PipeEnd >= snd.upto

\* push_slots counts the bytes in the channel and in the message being written.
Accounts ==
  /\ app.level = PipeEnd - ReadEnd /\ app.level <= PipeBytes
  /\ rcv.pump = "run" =>
       /\ rcv.used = (rcv.in - PumpEndAt) + rcv.cost /\ rcv.used <= PushBytes
       /\ rcv.cost >= PumpEndAt - PipeEnd
       /\ rcv.cur = << >> => rcv.cost = 0
  /\ snd.out <= snd.next

\* The inductive invariant.
Inv == TypeOK /\ Chain /\ Pump /\ FinPlaces /\ Accounts

-----------------------------------------------------------------------------
(* Sequences of pieces.                                                    *)

\* A piece that starts where a chain ends extends it.
LEMMA AppendChain ==
  ASSUME NEW S, \A m \in S : m.lo \in Nat /\ m.hi \in Nat,
         NEW q \in Seq(S), NEW e \in Nat, NEW m \in S,
         Contig(q, e), m.lo = End(q, e), m.lo <= m.hi
  PROVE  Contig(Append(q, m), e) /\ End(Append(q, m), e) = m.hi
<1> DEFINE p == Append(q, m)
<1>1. /\ p \in Seq(S) /\ Len(p) = Len(q) + 1 /\ p[Len(q) + 1] = m
      /\ \A i \in 1 .. Len(q) : p[i] = q[i]
  OBVIOUS
<1>2. p # << >>
  BY <1>1
<1> HIDE DEF p
<1>3. End(p, e) = m.hi
  BY <1>1, <1>2 DEF End
<1>4. ASSUME NEW i \in 1 .. Len(p)
      PROVE  p[i].lo = (IF i = 1 THEN e ELSE p[i - 1].hi) /\ p[i].lo <= p[i].hi
  <2>1. CASE i \in 1 .. Len(q)
    <3>1. q[i].lo = (IF i = 1 THEN e ELSE q[i - 1].hi) /\ q[i].lo <= q[i].hi
      BY <2>1 DEF Contig
    <3>2. p[i] = q[i]
      BY <1>1, <2>1
    <3>3. CASE i = 1
      BY <3>1, <3>2, <3>3
    <3>4. CASE i # 1
      <4> DEFINE j == i - 1
      <4>1. j \in 1 .. Len(q)
        BY <2>1, <3>4
      <4> HIDE DEF j
      <4>2. p[j] = q[j]
        BY <1>1, <4>1
      <4>. QED  BY <3>1, <3>2, <3>4, <4>2 DEF j
    <3>. QED  BY <3>3, <3>4
  <2>2. CASE i = Len(q) + 1
    <3>1. p[i] = m /\ m.lo = (IF q = << >> THEN e ELSE q[Len(q)].hi)
      BY <1>1, <2>2 DEF End
    <3>2. CASE q = << >>
      BY <2>2, <3>1, <3>2
    <3>3. CASE q # << >>
      <4>1. Len(q) \in 1 .. Len(q) /\ i # 1 /\ i - 1 = Len(q)
        BY <2>2, <3>3
      <4>2. p[i - 1] = q[Len(q)]
        BY <1>1, <4>1
      <4>. QED  BY <3>1, <3>3, <4>1, <4>2
    <3>. QED  BY <3>2, <3>3
  <2>. QED  BY <1>1, <2>1, <2>2
<1>. QED  BY <1>3, <1>4 DEF Contig, p

\* What is left of a chain when its first piece is taken starts where that one ends.
LEMMA TailChain ==
  ASSUME NEW S, \A m \in S : m.lo \in Nat /\ m.hi \in Nat,
         NEW q \in Seq(S), NEW e \in Nat, q # << >>, Contig(q, e)
  PROVE  /\ Head(q) \in S /\ Head(q).lo = e /\ e <= Head(q).hi
         /\ Contig(Tail(q), Head(q).hi) /\ End(Tail(q), Head(q).hi) = End(q, e)
<1> DEFINE t == Tail(q)
<1>1. /\ t \in Seq(S) /\ Len(t) = Len(q) - 1 /\ Len(q) \in Nat \ {0}
      /\ Head(q) = q[1] /\ q[1] \in S /\ \A i \in 1 .. Len(t) : t[i] = q[i + 1]
  <2>1. Len(q) \in Nat \ {0} /\ q[1] \in S /\ Head(q) = q[1]
    OBVIOUS
  <2>2. t \in Seq(S) /\ Len(t) = Len(q) - 1 /\ \A i \in 1 .. Len(t) : t[i] = q[i + 1]
    OBVIOUS
  <2>. QED  BY <2>1, <2>2
<1>2. t = << >> <=> Len(t) = 0
  BY <1>1
<1> HIDE DEF t
<1>3. q[1].lo = e /\ e <= q[1].hi
  BY <1>1 DEF Contig
<1>4. End(t, q[1].hi) = End(q, e)
  BY <1>1, <1>2 DEF End
<1>5. ASSUME NEW i \in 1 .. Len(t)
      PROVE  t[i].lo = (IF i = 1 THEN q[1].hi ELSE t[i - 1].hi) /\ t[i].lo <= t[i].hi
  <2>1. /\ i + 1 \in 1 .. Len(q) /\ i + 1 # 1 /\ (i + 1) - 1 = i
        /\ t[i] = q[i + 1]
        /\ i # 1 => t[i - 1] = q[i]
    BY <1>1
  <2>. QED  BY <1>1, <2>1 DEF Contig
<1>. QED  BY <1>1, <1>3, <1>4, <1>5 DEF Contig, t

\* The bytes up to h may be cut off the first piece of a chain.
LEMMA CutChain ==
  ASSUME NEW S, \A m \in S : m.lo \in Nat /\ m.hi \in Nat,
         NEW q \in Seq(S), NEW e \in Nat, q # << >>, Contig(q, e),
         NEW m \in S, m.hi = Head(q).hi, m.lo <= m.hi
  PROVE  /\ Contig(<<m>> \o Tail(q), m.lo) /\ End(<<m>> \o Tail(q), m.lo) = End(q, e)
         /\ <<m>> \o Tail(q) \in Seq(S)
<1> DEFINE t == <<m>> \o Tail(q)
<1>1. /\ t \in Seq(S) /\ Len(t) = Len(q) /\ Len(q) \in Nat \ {0} /\ Head(q) = q[1]
      /\ t[1] = m /\ \A i \in 2 .. Len(t) : t[i] = q[i]
  OBVIOUS
<1>2. t # << >>
  BY <1>1
<1> HIDE DEF t
<1>3. End(t, m.lo) = End(q, e)
  BY <1>1, <1>2 DEF End
<1>4. ASSUME NEW i \in 1 .. Len(t)
      PROVE  t[i].lo = (IF i = 1 THEN m.lo ELSE t[i - 1].hi) /\ t[i].lo <= t[i].hi
  <2>1. CASE i = 1
    BY <1>1, <2>1
  <2>2. CASE i = 2
    <3>1. q[2].lo = q[1].hi /\ q[2].lo <= q[2].hi
      BY <1>1, <2>2 DEF Contig
    <3>. QED  BY <1>1, <2>2, <3>1
  <2>3. CASE i > 2
    <3>1. q[i].lo = q[i - 1].hi /\ q[i].lo <= q[i].hi
      BY <1>1, <2>3 DEF Contig
    <3>2. t[i] = q[i]
      BY <1>1, <2>3
    <3> DEFINE j == i - 1
    <3>3. j \in 2 .. Len(t)
      BY <1>1, <2>3
    <3> HIDE DEF j
    <3>4. t[j] = q[j]
      BY <1>1, <3>3
    <3>. QED  BY <2>3, <3>1, <3>2, <3>4 DEF j
  <2>. QED  BY <2>1, <2>2, <2>3
<1>. QED  BY <1>1, <1>3, <1>4 DEF Contig, t

\* The pieces of a queue one was put in, or taken from.
LEMMA PiecesOf ==
  ASSUME NEW S, NEW q \in Seq(S)
  PROVE  /\ \A m \in S : Pieces(Append(q, m)) = Pieces(q) \cup {m}
         /\ q # << >> => Pieces(Tail(q)) \subseteq Pieces(q) /\ Head(q) \in Pieces(q)
         /\ Pieces(q) \subseteq S
         /\ Pieces(<< >>) = {}
<1>1. ASSUME NEW m \in S PROVE Pieces(Append(q, m)) = Pieces(q) \cup {m}
  <2> DEFINE p == Append(q, m)
  <2>1. /\ Len(p) = Len(q) + 1 /\ p[Len(q) + 1] = m /\ Len(q) \in Nat
        /\ \A i \in 1 .. Len(q) : p[i] = q[i]
    OBVIOUS
  <2> HIDE DEF p
  <2>. QED  BY <2>1 DEF Pieces, p
<1>2. ASSUME q # << >>
      PROVE  Pieces(Tail(q)) \subseteq Pieces(q) /\ Head(q) \in Pieces(q)
  <2> DEFINE t == Tail(q)
  <2>1. /\ Len(t) = Len(q) - 1 /\ Len(q) \in Nat \ {0} /\ Head(q) = q[1]
        /\ \A i \in 1 .. Len(t) : t[i] = q[i + 1]
    BY <1>2
  <2> HIDE DEF t
  <2>2. \A i \in 1 .. Len(t) : i + 1 \in 1 .. Len(q)
    BY <2>1
  <2>. QED  BY <2>1, <2>2 DEF Pieces, t
<1>3. Pieces(q) \subseteq S /\ Pieces(<< >>) = {}
  BY DEF Pieces
<1>. QED  BY <1>1, <1>2, <1>3

\* Pieces have offsets, and so have the ends of chains.
LEMMA Offsets ==
  /\ Offset \subseteq Nat
  /\ \A m \in Msg : m.lo \in Nat /\ m.hi \in Nat
  /\ \A c \in Chunk : c.lo \in Nat /\ c.hi \in Nat
BY DataAssumption DEF Offset, Msg, Chunk

\* A chain ends at an offset, and an empty one where it starts.
LEMMA EndOf ==
  /\ \A q \in Seq(Msg), e \in Nat : End(q, e) \in Nat
  /\ \A q \in Seq(Chunk), e \in Nat : End(q, e) \in Nat
  /\ \A e : End(<< >>, e) = e /\ Contig(<< >>, e)
<1>2. ASSUME NEW q \in Seq(Msg), NEW e \in Nat PROVE End(q, e) \in Nat
  <2>1. q # << >> => q[Len(q)] \in Msg
    OBVIOUS
  <2>. QED  BY Offsets, <2>1 DEF End
<1>3. ASSUME NEW q \in Seq(Chunk), NEW e \in Nat PROVE End(q, e) \in Nat
  <2>1. q # << >> => q[Len(q)] \in Chunk
    OBVIOUS
  <2>. QED  BY Offsets, <2>1 DEF End
<1>4. ASSUME NEW e PROVE End(<< >>, e) = e /\ Contig(<< >>, e)
  BY DEF End, Contig
<1>. QED  BY <1>2, <1>3, <1>4

\* A message put at the end of a queue.
LEMMA AppendMsg ==
  ASSUME NEW q \in Seq(Msg), NEW m \in Msg
  PROVE  /\ Append(q, m) \in Seq(Msg) /\ Pieces(Append(q, m)) = Pieces(q) \cup {m}
         /\ \A e \in Nat : Contig(q, e) /\ m.lo = End(q, e) /\ m.lo <= m.hi
              => Contig(Append(q, m), e) /\ End(Append(q, m), e) = m.hi
<1>1. Append(q, m) \in Seq(Msg)
  OBVIOUS
<1>2. Pieces(Append(q, m)) = Pieces(q) \cup {m}
  BY PiecesOf
<1>3. \A x \in Msg : x.lo \in Nat /\ x.hi \in Nat
  BY Offsets
<1>4. ASSUME NEW e \in Nat, Contig(q, e), m.lo = End(q, e), m.lo <= m.hi
      PROVE  Contig(Append(q, m), e) /\ End(Append(q, m), e) = m.hi
  BY <1>3, <1>4, AppendChain
<1>. QED  BY <1>1, <1>2, <1>4

\* Bytes put at the end of the pipe, or of what was read.
LEMMA AppendChunk ==
  ASSUME NEW q \in Seq(Chunk), NEW e \in Nat, NEW c \in Chunk,
         Contig(q, e), c.lo = End(q, e), c.lo <= c.hi
  PROVE  /\ Append(q, c) \in Seq(Chunk) /\ Pieces(Append(q, c)) = Pieces(q) \cup {c}
         /\ Contig(Append(q, c), e) /\ End(Append(q, c), e) = c.hi
<1>1. Append(q, c) \in Seq(Chunk)
  OBVIOUS
<1>2. Pieces(Append(q, c)) = Pieces(q) \cup {c}
  BY PiecesOf
<1>3. \A x \in Chunk : x.lo \in Nat /\ x.hi \in Nat
  BY Offsets
<1>. QED  BY <1>1, <1>2, <1>3, AppendChain

\* The first bytes of the pipe, and the ones behind them.
LEMMA TailChunk ==
  ASSUME NEW q \in Seq(Chunk), NEW e \in Nat, q # << >>, Contig(q, e)
  PROVE  /\ Tail(q) \in Seq(Chunk) /\ Head(q) \in Chunk
         /\ Head(q) \in Pieces(q) /\ Pieces(Tail(q)) \subseteq Pieces(q)
         /\ Head(q).lo = e /\ e <= Head(q).hi
         /\ Contig(Tail(q), Head(q).hi) /\ End(Tail(q), Head(q).hi) = End(q, e)
<1>1. Tail(q) \in Seq(Chunk) /\ Head(q) \in Chunk
  OBVIOUS
<1>2. Head(q) \in Pieces(q) /\ Pieces(Tail(q)) \subseteq Pieces(q)
  BY PiecesOf
<1>3. \A x \in Chunk : x.lo \in Nat /\ x.hi \in Nat
  BY Offsets
<1>. QED  BY <1>1, <1>2, <1>3, TailChain

\* A message taken from the front of a queue.
LEMMA TailMsg ==
  ASSUME NEW q \in Seq(Msg), q # << >>
  PROVE  /\ Tail(q) \in Seq(Msg) /\ Head(q) \in Msg
         /\ Head(q) \in Pieces(q) /\ Pieces(Tail(q)) \subseteq Pieces(q)
         /\ \A e \in Nat : Contig(q, e)
              => /\ Head(q).lo = e /\ e <= Head(q).hi
                 /\ Contig(Tail(q), Head(q).hi) /\ End(Tail(q), Head(q).hi) = End(q, e)
<1>1. Tail(q) \in Seq(Msg) /\ Head(q) \in Msg
  OBVIOUS
<1>2. Head(q) \in Pieces(q) /\ Pieces(Tail(q)) \subseteq Pieces(q)
  BY PiecesOf
<1>3. \A x \in Msg : x.lo \in Nat /\ x.hi \in Nat
  BY Offsets
<1>4. ASSUME NEW e \in Nat, Contig(q, e)
      PROVE  /\ Head(q).lo = e /\ e <= Head(q).hi
             /\ Contig(Tail(q), Head(q).hi) /\ End(Tail(q), Head(q).hi) = End(q, e)
  BY <1>3, <1>4, TailChain
<1>. QED  BY <1>1, <1>2, <1>4

\* The fields, and the ends of the chains.
LEMMA Types ==
  ASSUME TypeOK
  PROVE  /\ snd \in Sender /\ rcv \in Receiver /\ app \in Reader /\ broken \in BOOLEAN
         /\ snd.data \in Seq(Msg) /\ wire \in Seq(Msg) /\ rcv.chan \in Seq(Msg)
         /\ rcv.cur \in Seq(Msg) /\ app.pipe \in Seq(Chunk) /\ app.got \in Seq(Chunk)
         /\ snd.next \in Nat /\ snd.upto \in Nat /\ snd.out \in Nat /\ rcv.in \in Nat
         /\ rcv.used \in Nat /\ rcv.cost \in Nat /\ app.level \in Nat
         /\ ReadEnd \in Nat /\ PipeEnd \in Nat /\ PumpEndAt \in Nat
<1>1. /\ snd.data \in Seq(Msg) /\ wire \in Seq(Msg) /\ rcv.chan \in Seq(Msg)
      /\ rcv.cur \in Seq(Msg) /\ app.pipe \in Seq(Chunk) /\ app.got \in Seq(Chunk)
      /\ rcv.used \in Nat /\ rcv.cost \in Nat /\ app.level \in Nat
  BY DEF TypeOK, Sender, Receiver, Reader
<1>2. snd.next \in Nat /\ snd.upto \in Nat /\ snd.out \in Nat /\ rcv.in \in Nat
  BY Zenon, Offsets DEF TypeOK, Sender, Receiver
<1>3. ReadEnd \in Nat
  BY Zenon, <1>1, EndOf DEF ReadEnd
<1>4. PipeEnd \in Nat
  BY Zenon, <1>1, <1>3, EndOf DEF PipeEnd
<1>5. PumpEndAt \in Nat
  BY Zenon, <1>1, <1>4, EndOf DEF PumpEndAt
<1>. QED  BY <1>1, <1>2, <1>3, <1>4, <1>5 DEF TypeOK

\* Nothing but the state of the write call changes.
LEMMA CallInv ==
  ASSUME Inv, NEW c \in {"none", "checked", "wait"},
         snd' = [snd EXCEPT !.call = c], UNCHANGED <<wire, rcv, app, broken>>
  PROVE  Inv'
<1>1. /\ snd' \in Sender /\ snd'.next = snd.next /\ snd'.fin = snd.fin /\ snd'.upto = snd.upto
      /\ snd'.data = snd.data /\ snd'.rst = snd.rst /\ snd'.out = snd.out
  BY DEF Inv, TypeOK, Sender
<1>. QED  BY <1>1 DEF Inv, TypeOK, Chain, ReadChain, QueueChain, PumpChain, WireChain, ReadEnd,
                      PipeEnd, PumpEndAt, Sound, FinsLast, Pump, FinPlaces, Accounts

\* Stream::write puts a frame in the data queue.
LEMMA WriteQueueInv == ASSUME Inv, WriteQueue PROVE Inv'
<1>1. PICK h \in snd.next + 1 .. snd.next + MaxFrame :
        /\ h <= MaxBytes
        /\ snd' = [snd EXCEPT !.call = "wait", !.next = h,
                              !.data = Append(snd.data, Data(snd.next, h))]
  BY Zenon DEF WriteQueue
<1> DEFINE m == Data(snd.next, h)
           d == Append(snd.data, m)
<1>2. /\ snd \in Sender /\ snd.next \in Offset /\ snd.next \in Nat /\ h \in Offset /\ h > snd.next
      /\ snd.data \in Seq(Msg) /\ snd.out \in Nat
      /\ UNCHANGED <<wire, rcv, app, broken>>
  BY <1>1, DataAssumption DEF Inv, TypeOK, Sender, Offset, WriteQueue
<1>3. m \in Msg /\ m.lo = snd.next /\ m.hi = h /\ m.kind = "data"
  BY <1>2 DEF Data, Msg
<1> HIDE DEF m
<1>4. d \in Seq(Msg) /\ Pieces(d) = Pieces(snd.data) \cup {m}
  BY <1>2, <1>3, AppendMsg
<1>5. Contig(d, snd.out) /\ End(d, snd.out) = h
  BY <1>2, <1>3, AppendMsg DEF Inv, Chain, QueueChain
<1> HIDE DEF d
<1>6. /\ snd' \in Sender /\ snd'.next = h /\ snd'.fin = snd.fin /\ snd'.upto = snd.upto
      /\ snd'.data = d /\ snd'.rst = snd.rst /\ snd'.out = snd.out
  BY Zenon, <1>1, <1>2, <1>4 DEF Sender, d, m
<1>7. TypeOK'
  BY <1>2, <1>6 DEF Inv, TypeOK
<1>8. Sound(snd.data)' /\ Sound(wire)' /\ Sound(rcv.chan)' /\ Sound(rcv.cur)'
  <2>1. ASSUME NEW q \in Seq(Msg), Sound(q)
        PROVE  \A x \in Pieces(q) :
                 x.lo <= x.hi /\ x.hi <= h /\ (x.kind = "fin" => x.lo = x.hi)
    <3>1. Pieces(q) \subseteq Msg
      BY PiecesOf
    <3>. QED  BY <1>2, <2>1, <3>1, Offsets DEF Sound
  <2>2. Sound(snd.data)'
    BY <1>2, <1>3, <1>4, <1>6, <2>1, Offsets DEF Inv, Chain, Sound
  <2>3. Sound(wire)' /\ Sound(rcv.chan)' /\ Sound(rcv.cur)'
    BY Zenon, <1>2, <1>6, <2>1 DEF Inv, TypeOK, Receiver, Chain, Sound
  <2>. QED  BY <2>2, <2>3
<1>9. ReadChain'
  <2>1. PipeEnd \in Nat /\ PipeEnd <= snd.next
    BY Types DEF Inv, Chain, ReadChain
  <2>2. PipeEnd' = PipeEnd /\ ReadEnd' = ReadEnd
    BY <1>2 DEF PipeEnd, ReadEnd
  <2>. QED  BY <1>2, <1>6, <2>1, <2>2 DEF Inv, Chain, ReadChain
<1>10. Chain'
  BY <1>2, <1>5, <1>6, <1>8, <1>9 DEF Inv, Chain, QueueChain, PumpChain, WireChain, ReadEnd,
                                    PipeEnd, PumpEndAt
<1>11. FinPlaces'
  BY <1>2, <1>3, <1>4, <1>6 DEF Inv, FinPlaces, FinsLast, PipeEnd, ReadEnd
<1>. QED  BY <1>2, <1>6, <1>7, <1>10, <1>11 DEF Inv, Pump, Accounts, ReadEnd, PipeEnd, PumpEndAt

\* The writer's FIN goes to the data queue.
LEMMA SendFinInv == ASSUME Inv, SendFin PROVE Inv'
<1> DEFINE m == FinAt(snd.next)
           d == Append(snd.data, m)
<1>1. /\ snd' = [snd EXCEPT !.fin = TRUE, !.upto = snd.next, !.data = d]
      /\ ~snd.fin /\ UNCHANGED <<wire, rcv, app, broken>>
  BY DEF SendFin
<1>2. m \in Msg /\ m.lo = snd.next /\ m.hi = snd.next /\ m.kind = "fin"
  BY DEF Inv, TypeOK, Sender, FinAt, Msg
<1>0. snd.data \in Seq(Msg) /\ snd.next \in Nat /\ snd.out \in Nat
  BY Types DEF Inv
<1> HIDE DEF m
<1>3. d \in Seq(Msg) /\ Pieces(d) = Pieces(snd.data) \cup {m}
  BY <1>0, <1>2, AppendMsg
<1>4. Contig(d, snd.out) /\ End(d, snd.out) = snd.next
  BY <1>0, <1>2, AppendMsg DEF Inv, Chain, QueueChain
<1> HIDE DEF d
<1>5. /\ snd' \in Sender /\ snd'.next = snd.next /\ snd'.fin = TRUE /\ snd'.upto = snd.next
      /\ snd'.data = d /\ snd'.rst = snd.rst /\ snd'.out = snd.out
  BY Zenon, <1>1, <1>3 DEF Inv, TypeOK, Sender
<1>6. TypeOK'
  BY <1>1, <1>5 DEF Inv, TypeOK
<1>7. Chain'
  <2>1. Sound(snd.data)'
    <3>1. Sound(snd.data)
      BY DEF Inv, Chain
    <3>2. m.lo <= m.hi /\ m.hi <= snd.next
      BY <1>0, <1>2
    <3>. QED  BY <1>2, <1>3, <1>5, <3>1, <3>2 DEF Sound
  <2>2. Sound(wire)' /\ Sound(rcv.chan)' /\ Sound(rcv.cur)'
    BY <1>1, <1>5 DEF Inv, Chain, Sound
  <2>. QED  BY <1>1, <1>4, <1>5, <2>1, <2>2 DEF Inv, Chain, ReadChain, QueueChain, PumpChain,
                                            WireChain, ReadEnd, PipeEnd, PumpEndAt
<1>8. FinPlaces'
  <2> SUFFICES ASSUME ~broken' PROVE FinPlaces'
    BY DEF FinPlaces
  <2>1. /\ FinsLast(snd.data) /\ FinsLast(wire) /\ FinsLast(rcv.chan)
        /\ ~rcv.late /\ rcv.pump # "fin"
    BY <1>1 DEF Inv, FinPlaces
  <2>2. FinsLast(snd.data)'
    <3>1. ASSUME NEW x \in Pieces(d), x.kind = "fin" PROVE x.lo >= snd.next
      BY <1>0, <1>1, <1>2, <1>3, <2>1, <3>1 DEF FinsLast
    <3>. QED  BY <1>5, <3>1 DEF FinsLast
  <2>3. FinsLast(wire)' /\ FinsLast(rcv.chan)'
    BY <1>1, <2>1 DEF FinsLast
  <2>. QED  BY <1>1, <2>1, <2>2, <2>3 DEF FinPlaces
<1>. QED  BY <1>1, <1>5, <1>6, <1>7, <1>8 DEF Inv, Pump, Accounts, ReadEnd, PipeEnd, PumpEndAt

\* The stream is reset at the sender's end.
LEMMA SenderResetInv == ASSUME Inv, SenderReset PROVE Inv'
<1>1. /\ snd' \in Sender /\ snd'.next = snd.next /\ snd'.fin = snd.fin /\ snd'.upto = snd.upto
      /\ snd'.data = snd.data /\ snd'.out = snd.out
      /\ broken' = TRUE /\ UNCHANGED <<wire, rcv, app>>
  BY Zenon DEF SenderReset, Inv, TypeOK, Sender
<1>. QED  BY <1>1 DEF Inv, TypeOK, Chain, ReadChain, QueueChain, PumpChain, WireChain, ReadEnd,
                      PipeEnd, PumpEndAt, Sound, Pump, FinPlaces, Accounts

\* A frame is put on the transport.
LEMMA WireInv ==
  ASSUME Inv, NEW m \in Msg, wire' = Append(wire, m), UNCHANGED <<rcv, app, broken>>,
         snd' \in Sender, snd'.next = snd.next, snd'.fin = snd.fin, snd'.upto = snd.upto,
         snd'.rst => snd.rst, snd'.out = m.hi, m.lo = snd.out, m.lo <= m.hi, m.hi <= snd.next,
         m.kind = "fin" => m.lo = m.hi, Sound(snd'.data),
         Contig(snd'.data, m.hi), End(snd'.data, m.hi) = snd.next,
         ~broken => FinsLast(snd'.data) /\ (m.kind = "fin" => snd.fin /\ m.lo >= snd.upto)
  PROVE  Inv'
<1>1. wire' \in Seq(Msg) /\ Pieces(wire') = Pieces(wire) \cup {m}
  BY Types, AppendMsg DEF Inv
<1>2. TypeOK'
  BY <1>1 DEF Inv, TypeOK
<1>3. Sound(wire)' /\ Sound(snd.data)' /\ Sound(rcv.chan)' /\ Sound(rcv.cur)'
  BY <1>1 DEF Inv, Chain, Sound
<1>4. rcv.pump = "run" /\ rcv.slot => WireChain'
  <2> SUFFICES ASSUME rcv.pump = "run", rcv.slot PROVE WireChain'
    OBVIOUS
  <2>1. Contig(wire, rcv.in) /\ End(wire, rcv.in) = snd.out
    BY DEF Inv, Chain, WireChain
  <2>2. wire \in Seq(Msg) /\ rcv.in \in Nat
    BY Types DEF Inv
  <2>3. Contig(wire', rcv.in) /\ End(wire', rcv.in) = m.hi
    BY <2>1, <2>2, AppendMsg
  <2>. QED  BY <2>3 DEF WireChain
<1>5. Chain'
  BY <1>3, <1>4 DEF Inv, Chain, ReadChain, QueueChain, PumpChain, ReadEnd, PipeEnd, PumpEndAt
<1>6. FinPlaces'
  BY <1>1 DEF Inv, FinPlaces, FinsLast, ReadEnd, PipeEnd
<1>. QED  BY <1>2, <1>5, <1>6 DEF Inv, Pump, Accounts, ReadEnd, PipeEnd, PumpEndAt

\* The FIN of a reset goes out ahead of the data queue.
LEMMA WriteControlInv == ASSUME Inv, WriteControl PROVE Inv'
<1> DEFINE m == FinAt(snd.out)
<1>1. /\ snd' \in Sender /\ snd'.next = snd.next /\ snd'.fin = snd.fin /\ snd'.upto = snd.upto
      /\ snd'.data = snd.data /\ snd'.rst = FALSE /\ snd'.out = snd.out
      /\ broken /\ wire' = Append(wire, m) /\ UNCHANGED <<rcv, app, broken>>
  BY Zenon DEF WriteControl, Inv, TypeOK, Sender, Pump
<1>2. m \in Msg /\ m.lo = snd.out /\ m.hi = snd.out /\ m.kind = "fin"
  BY DEF Inv, TypeOK, Sender, FinAt, Msg
<1> HIDE DEF m
<1>3. m.lo <= m.hi /\ m.hi <= snd.next
  BY <1>2, Types DEF Inv, Accounts
<1>4. /\ Sound(snd'.data) /\ Contig(snd'.data, m.hi) /\ End(snd'.data, m.hi) = snd.next
      /\ snd'.out = m.hi
  BY <1>1, <1>2 DEF Inv, Chain, QueueChain
<1>. QED  BY <1>1, <1>2, <1>3, <1>4, WireInv

\* A frame of the data queue goes out.
LEMMA WriteFrameInv == ASSUME Inv, WriteFrame PROVE Inv'
<1> DEFINE m == Head(snd.data)
           t == Tail(snd.data)
<1>1. snd.data # << >> /\ snd.data \in Seq(Msg) /\ snd.out \in Nat /\ snd.next \in Nat
  BY Types DEF WriteFrame, Inv
<1>2. /\ m \in Msg /\ m \in Pieces(snd.data) /\ t \in Seq(Msg) /\ Pieces(t) \subseteq Pieces(snd.data)
      /\ m.lo = snd.out /\ Contig(t, m.hi) /\ End(t, m.hi) = snd.next
  BY <1>1, TailMsg DEF Inv, Chain, QueueChain
<1>3. /\ snd' \in Sender /\ snd'.next = snd.next /\ snd'.fin = snd.fin /\ snd'.upto = snd.upto
      /\ snd'.data = t /\ snd'.rst = snd.rst /\ snd'.out = m.hi
      /\ wire' = Append(wire, m) /\ UNCHANGED <<rcv, app, broken>>
  <2>1. PICK c \in {"none", "checked", "wait"} :
          snd' = [snd EXCEPT !.data = t, !.out = m.hi, !.call = c]
    BY Zenon DEF WriteFrame, Inv, TypeOK, Sender
  <2>2. wire' = Append(wire, m) /\ UNCHANGED <<rcv, app, broken>>
    BY DEF WriteFrame
  <2>3. m.hi \in Offset
    BY <1>2 DEF Msg
  <2> HIDE DEF m, t
  <2>. QED  BY Zenon, <1>2, <2>1, <2>2, <2>3 DEF Inv, TypeOK, Sender
<1> HIDE DEF m, t
<1>4. /\ m.lo <= m.hi /\ m.hi <= snd.next /\ (m.kind = "fin" => m.lo = m.hi)
      /\ Sound(t)
  BY <1>2 DEF Inv, Chain, Sound
<1>5. ~broken => FinsLast(t) /\ (m.kind = "fin" => snd.fin /\ m.lo >= snd.upto)
  BY <1>2 DEF Inv, FinPlaces, FinsLast
<1>6. /\ Sound(snd'.data) /\ Contig(snd'.data, m.hi) /\ End(snd'.data, m.hi) = snd.next
      /\ ~broken => FinsLast(snd'.data)
  BY <1>2, <1>3, <1>4, <1>5
<1>. QED  BY <1>2, <1>3, <1>4, <1>5, <1>6, WireInv

\* The receive loop has read a frame.
LEMMA ReadFrame ==
  ASSUME Inv, wire # << >>, wire' = Tail(wire), snd' = snd
  PROVE  /\ wire' \in Seq(Msg) /\ Head(wire) \in Msg /\ Sound(wire)'
         /\ Head(wire).lo <= Head(wire).hi /\ Head(wire).hi <= snd.next
         /\ Head(wire).kind = "fin" => Head(wire).lo = Head(wire).hi
         /\ ~broken => /\ FinsLast(wire)'
                       /\ Head(wire).kind = "fin" => snd.fin /\ Head(wire).lo >= snd.upto
         /\ rcv.pump = "run" /\ rcv.slot =>
              /\ Head(wire).lo = rcv.in
              /\ Contig(wire', Head(wire).hi) /\ End(wire', Head(wire).hi) = snd.out
<1>0. wire \in Seq(Msg) /\ rcv.in \in Nat
  BY Types DEF Inv
<1>1. /\ wire' \in Seq(Msg) /\ Head(wire) \in Msg /\ Head(wire) \in Pieces(wire)
      /\ Pieces(wire') \subseteq Pieces(wire)
  BY <1>0, TailMsg
<1>2. rcv.pump = "run" /\ rcv.slot =>
        /\ Head(wire).lo = rcv.in
        /\ Contig(wire', Head(wire).hi) /\ End(wire', Head(wire).hi) = snd.out
  BY <1>0, TailMsg DEF Inv, Chain, WireChain
<1>3. /\ Sound(wire)' /\ Head(wire).lo <= Head(wire).hi /\ Head(wire).hi <= snd.next
      /\ Head(wire).kind = "fin" => Head(wire).lo = Head(wire).hi
  BY <1>1 DEF Inv, Chain, Sound
<1>4. ~broken => /\ FinsLast(wire)'
                 /\ Head(wire).kind = "fin" => snd.fin /\ Head(wire).lo >= snd.upto
  BY <1>1 DEF Inv, FinPlaces, FinsLast
<1>. QED  BY <1>1, <1>2, <1>3, <1>4

\* The channel, the pump and the counters stay as they are; the slot may be emptied.
LEMMA SlotInv ==
  ASSUME Inv, UNCHANGED <<snd, app>>, wire' \in Seq(Msg), Sound(wire)',
         rcv' \in Receiver, rcv'.chan = rcv.chan, rcv'.used = rcv.used, rcv'.pump = rcv.pump,
         rcv'.cur = rcv.cur, rcv'.cost = rcv.cost, rcv'.in = rcv.in, rcv'.slot => rcv.slot,
         broken' \in BOOLEAN, broken => broken', rcv'.slot \/ broken',
         rcv.pump = "run" /\ rcv'.slot => WireChain',
         ~broken' => /\ FinsLast(wire)'
                     /\ rcv'.late => snd.fin /\ rcv.in >= snd.upto
  PROVE  Inv'
<1>1. TypeOK'
  BY DEF Inv, TypeOK
<1>2. Chain'
  BY DEF Inv, Chain, ReadChain, QueueChain, PumpChain, Sound, ReadEnd, PipeEnd, PumpEndAt
<1>3. FinPlaces'
  BY DEF Inv, TypeOK, FinPlaces, FinsLast, ReadEnd, PipeEnd
<1>4. Pump'
  BY DEF Inv, Pump
<1>. QED  BY <1>1, <1>2, <1>3, <1>4 DEF Inv, Accounts, ReadEnd, PipeEnd, PumpEndAt

\* A message goes to the channel, which starts where the channel ends.
LEMMA ChannelInv ==
  ASSUME Inv, UNCHANGED <<snd, app, broken>>, NEW m \in Msg, rcv.pump = "run",
         m.lo = rcv.in, m.lo <= m.hi, m.hi <= snd.next, m.kind = "fin" => m.lo = m.hi,
         rcv' \in Receiver, rcv'.chan = Append(rcv.chan, m), rcv'.in = m.hi,
         rcv'.used = rcv.used + Size(m), rcv'.used <= PushBytes,
         rcv'.cur = rcv.cur, rcv'.cost = rcv.cost, rcv'.pump = "run", rcv'.slot = rcv.slot,
         wire' \in Seq(Msg), Sound(wire)', rcv.slot => WireChain',
         ~broken => /\ FinsLast(wire)' /\ (m.kind = "fin" => snd.fin /\ m.lo >= snd.upto)
                    /\ rcv'.late => snd.fin /\ m.hi >= snd.upto
  PROVE  Inv'
<1>0. /\ rcv.chan \in Seq(Msg) /\ PumpEndAt \in Nat /\ PipeEnd \in Nat /\ rcv.in \in Nat
      /\ rcv.used \in Nat /\ rcv.cost \in Nat /\ m.lo \in Nat /\ m.hi \in Nat
      /\ \A x \in Pieces(rcv.chan) : x.hi \in Nat
  <2>1. TypeOK
    BY DEF Inv
  <2>2. /\ rcv.chan \in Seq(Msg) /\ PumpEndAt \in Nat /\ PipeEnd \in Nat /\ rcv.in \in Nat
        /\ rcv.used \in Nat /\ rcv.cost \in Nat
    BY Zenon, <2>1, Types
  <2>3. Pieces(rcv.chan) \subseteq Msg
    BY Zenon, <2>2, PiecesOf
  <2>. QED  BY Zenon, <2>2, <2>3, Offsets
<1>1. TypeOK'
  BY DEF Inv, TypeOK
<1>2. /\ Pieces(rcv'.chan) = Pieces(rcv.chan) \cup {m}
      /\ Contig(rcv'.chan, PumpEndAt) /\ End(rcv'.chan, PumpEndAt) = m.hi
  BY <1>0, AppendMsg DEF Inv, Chain, PumpChain
<1>3. PumpEndAt' = PumpEndAt /\ PipeEnd' = PipeEnd /\ ReadEnd' = ReadEnd
  BY DEF PumpEndAt, PipeEnd, ReadEnd
<1>4. Sound(rcv.chan)' /\ Sound(rcv.cur)' /\ Sound(snd.data)'
  <2>1. Sound(rcv.chan) /\ Sound(rcv.cur) /\ Sound(snd.data)
    BY DEF Inv, Chain
  <2>2. Sound(rcv.cur)' /\ Sound(snd.data)'
    BY <2>1 DEF Sound
  <2>3. Sound(rcv.chan)'
    BY <1>2, <2>1 DEF Sound
  <2>. QED  BY <2>2, <2>3
<1>5. PumpChain'
  <2>1. PumpChain
    BY DEF Inv, Chain
  <2>2. PumpEndAt <= m.hi /\ \A x \in Pieces(rcv'.chan) : x.hi <= m.hi
    BY <1>0, <1>2, <2>1 DEF PumpChain
  <2>. QED  BY <1>2, <1>3, <2>1, <2>2 DEF PumpChain
<1>6. Chain'
  BY <1>3, <1>4, <1>5 DEF Inv, Chain, ReadChain, QueueChain
<1>7. FinPlaces'
  BY <1>2, <1>3 DEF Inv, FinPlaces, FinsLast
<1>8. rcv'.used = (rcv'.in - PumpEndAt) + rcv.cost
  <2>1. rcv.used = (rcv.in - PumpEndAt) + rcv.cost
    BY DEF Inv, Accounts
  <2>2. rcv'.used = rcv.used + (m.hi - m.lo)
    BY DEF Size
  <2> DEFINE used == rcv.used
             lo == m.lo
             hi == m.hi
             cost == rcv.cost
             pump == PumpEndAt
  <2>3. used \in Nat /\ lo \in Nat /\ hi \in Nat /\ cost \in Nat /\ pump \in Nat
    BY <1>0
  <2>4. used = (lo - pump) + cost
    BY <2>1
  <2> HIDE DEF used, lo, hi, cost, pump
  <2>5. used + (hi - lo) = (hi - pump) + cost
    BY <2>3, <2>4
  <2>. QED  BY <2>2, <2>5 DEF used, lo, hi, cost, pump
<1>9. Accounts'
  BY <1>3, <1>8 DEF Inv, Accounts
<1>. QED  BY <1>1, <1>6, <1>7, <1>9 DEF Inv, Pump

\* A Push is queued, ignored, or resets the stream.
LEMMA ReceivePushInv == Inv /\ ReceivePush => Inv'
<1> SUFFICES ASSUME Inv, ReceivePush PROVE Inv'
  OBVIOUS
<1> DEFINE m == Head(wire)
           fits == /\ rcv.used + Size(m) <= PushBytes /\ rcv.pump = "run"
                   /\ Len(rcv.chan) < PushMsgs
<1>0. /\ rcv \in Receiver /\ broken \in BOOLEAN /\ rcv.in \in Nat /\ rcv.used \in Nat
      /\ rcv.chan \in Seq(Msg)
  BY Types DEF Inv, TypeOK
<1>1. /\ wire # << >> /\ m.kind = "data" /\ wire' = Tail(wire) /\ UNCHANGED <<snd, app>>
      /\ IF rcv.slot /\ ~fits
         THEN rcv' = [rcv EXCEPT !.slot = FALSE] /\ broken' = TRUE
         ELSE /\ rcv' = IF rcv.slot
                        THEN [rcv EXCEPT !.chan = Append(@, m), !.used = @ + Size(m), !.in = m.hi]
                        ELSE rcv
              /\ UNCHANGED broken
  BY DEF ReceivePush
<1>2. /\ wire' \in Seq(Msg) /\ m \in Msg /\ Sound(wire)'
      /\ m.lo <= m.hi /\ m.hi <= snd.next
      /\ ~broken => FinsLast(wire)'
      /\ rcv.pump = "run" /\ rcv.slot =>
           m.lo = rcv.in /\ Contig(wire', m.hi) /\ End(wire', m.hi) = snd.out
  BY <1>1, ReadFrame
<1>3. m.lo \in Nat /\ m.hi \in Nat /\ m.hi \in Offset
  BY Zenon, <1>2, Offsets DEF Msg
<1> HIDE DEF m
<1>4. CASE rcv.slot /\ ~fits
  <2>1. /\ rcv' \in Receiver /\ ~rcv'.slot /\ rcv'.chan = rcv.chan /\ rcv'.used = rcv.used
        /\ rcv'.pump = rcv.pump /\ rcv'.cur = rcv.cur /\ rcv'.cost = rcv.cost
        /\ rcv'.in = rcv.in /\ broken'
    BY Zenon, <1>0, <1>1, <1>4 DEF Receiver
  <2>. QED  BY <1>1, <1>2, <2>1, SlotInv
<1>5. CASE ~rcv.slot
  <2>1. rcv' = rcv /\ broken' = broken
    BY <1>1, <1>5
  <2>2. broken
    BY <1>5 DEF Inv, Pump
  <2>. QED  BY <1>0, <1>1, <1>2, <1>5, <2>1, <2>2, SlotInv
<1>6. CASE rcv.slot /\ fits
  <2>1. Append(rcv.chan, m) \in Seq(Msg) /\ rcv.used + Size(m) \in Nat
    BY <1>0, <1>2, <1>3 DEF Size
  <2>2. rcv' = [rcv EXCEPT !.chan = Append(@, m), !.used = @ + Size(m), !.in = m.hi]
    BY <1>1, <1>6
  <2>3. /\ rcv' \in Receiver /\ rcv'.chan = Append(rcv.chan, m) /\ rcv'.in = m.hi
        /\ rcv'.used = rcv.used + Size(m) /\ rcv'.cur = rcv.cur /\ rcv'.cost = rcv.cost
        /\ rcv'.pump = rcv.pump /\ rcv'.slot = rcv.slot /\ rcv'.late = rcv.late
    BY Zenon, <1>0, <1>3, <2>1, <2>2 DEF Receiver
  <2>4. rcv.pump = "run" /\ rcv'.pump = "run" /\ rcv'.used <= PushBytes /\ m.lo = rcv.in
    BY <1>2, <1>6, <2>3
  <2>5. WireChain'
    BY <1>1, <1>2, <1>6, <2>3 DEF WireChain
  <2>6. UNCHANGED <<snd, app, broken>>
    BY <1>1, <1>6
  <2>7. ~broken => FinsLast(wire)' /\ (rcv'.late => snd.fin /\ m.hi >= snd.upto)
    <3>1. snd.upto \in Nat
      BY Types DEF Inv
    <3>. QED  BY <1>0, <1>2, <1>3, <2>3, <2>4, <3>1 DEF Inv, FinPlaces
  <2>. QED  BY <1>1, <1>2, <2>3, <2>4, <2>5, <2>6, <2>7, ChannelInv
<1>. QED  BY <1>4, <1>5, <1>6

\* A FIN is queued, noted for the task that waits for room, or ignored.
LEMMA ReceiveFinInv == Inv /\ ReceiveFin => Inv'
<1> SUFFICES ASSUME Inv, ReceiveFin PROVE Inv'
  OBVIOUS
<1> DEFINE m == Head(wire)
<1>0. /\ rcv \in Receiver /\ broken \in BOOLEAN /\ rcv.in \in Nat /\ rcv.used \in Nat
      /\ rcv.chan \in Seq(Msg)
  BY Types DEF Inv, TypeOK
<1>1. /\ wire # << >> /\ m.kind = "fin" /\ wire' = Tail(wire) /\ UNCHANGED <<snd, app, broken>>
      /\ rcv' = IF ~rcv.slot \/ rcv.fin THEN rcv
                ELSE IF rcv.pump # "run" THEN [rcv EXCEPT !.fin = TRUE]
                ELSE IF Len(rcv.chan) < PushMsgs
                     THEN [rcv EXCEPT !.fin = TRUE, !.chan = Append(@, m)]
                ELSE [rcv EXCEPT !.fin = TRUE, !.late = TRUE]
  BY DEF ReceiveFin
<1>2. /\ wire' \in Seq(Msg) /\ m \in Msg /\ Sound(wire)'
      /\ m.lo <= m.hi /\ m.hi <= snd.next /\ m.lo = m.hi
      /\ ~broken => FinsLast(wire)' /\ snd.fin /\ m.lo >= snd.upto
      /\ rcv.pump = "run" /\ rcv.slot =>
           m.lo = rcv.in /\ Contig(wire', m.hi) /\ End(wire', m.hi) = snd.out
  BY <1>1, ReadFrame
<1>3. m.lo \in Nat /\ m.hi \in Nat
  BY Zenon, <1>2, Offsets DEF Msg
<1> HIDE DEF m
<1>4. CASE rcv.slot /\ ~rcv.fin /\ rcv.pump = "run" /\ Len(rcv.chan) < PushMsgs
  <2>1. Append(rcv.chan, m) \in Seq(Msg)
    BY <1>0, <1>2
  <2>2. rcv' = [rcv EXCEPT !.fin = TRUE, !.chan = Append(@, m)]
    BY <1>1, <1>4
  <2>3. /\ rcv' \in Receiver /\ rcv'.chan = Append(rcv.chan, m) /\ rcv'.in = rcv.in
        /\ rcv'.used = rcv.used /\ rcv'.cur = rcv.cur /\ rcv'.cost = rcv.cost
        /\ rcv'.pump = rcv.pump /\ rcv'.slot = rcv.slot /\ rcv'.late = rcv.late
    BY Zenon, <1>0, <2>1, <2>2 DEF Receiver
  <2>4. /\ rcv.pump = "run" /\ rcv'.pump = "run" /\ rcv'.used <= PushBytes
        /\ m.lo = rcv.in /\ rcv'.in = m.hi /\ rcv'.used = rcv.used + Size(m)
    BY <1>0, <1>2, <1>3, <1>4, <2>3 DEF Inv, Accounts, Size
  <2>5. WireChain'
    BY <1>1, <1>2, <1>4, <2>4 DEF WireChain
  <2>6. ~broken => FinsLast(wire)' /\ (rcv'.late => snd.fin /\ m.hi >= snd.upto)
    BY <1>2, <2>3
  <2>. QED  BY <1>1, <1>2, <2>3, <2>4, <2>5, <2>6, ChannelInv
<1>5. CASE ~(rcv.slot /\ ~rcv.fin /\ rcv.pump = "run" /\ Len(rcv.chan) < PushMsgs)
  <2>1. /\ rcv' \in Receiver /\ rcv'.chan = rcv.chan /\ rcv'.used = rcv.used
        /\ rcv'.pump = rcv.pump /\ rcv'.cur = rcv.cur /\ rcv'.cost = rcv.cost
        /\ rcv'.in = rcv.in /\ rcv'.slot = rcv.slot
        /\ rcv'.late => rcv.late \/ (rcv.slot /\ rcv.pump = "run")
    BY Zenon, <1>0, <1>1, <1>5 DEF Receiver
  <2>2. rcv'.slot \/ broken
    BY <2>1 DEF Inv, Pump
  <2>3. rcv.pump = "run" /\ rcv'.slot => WireChain'
    BY <1>1, <1>2, <2>1 DEF WireChain
  <2>4. ~broken => FinsLast(wire)' /\ (rcv'.late => snd.fin /\ rcv.in >= snd.upto)
    BY <1>2, <2>1 DEF Inv, FinPlaces
  <2>. QED  BY <1>0, <1>1, <1>2, <2>1, <2>2, <2>3, <2>4, SlotInv
<1>. QED  BY <1>4, <1>5

\* What is in the channel was written.
LEMMA ChannelEnd == Inv /\ rcv.pump = "run" => rcv.in <= snd.next
<1> SUFFICES ASSUME Inv, rcv.pump = "run" PROVE rcv.in <= snd.next
  OBVIOUS
<1>1. /\ rcv.chan \in Seq(Msg) /\ rcv.cur \in Seq(Msg) /\ PipeEnd \in Nat
      /\ PumpEndAt \in Nat /\ snd.next \in Nat
  BY Types DEF Inv
<1>2. PumpEndAt <= snd.next
  <2>1. PipeEnd <= snd.next /\ \A x \in Pieces(rcv.cur) : x.hi <= snd.next
    BY DEF Inv, Chain, ReadChain, Sound
  <2>2. rcv.cur # << >> => rcv.cur[Len(rcv.cur)] \in Pieces(rcv.cur)
    BY <1>1 DEF Pieces
  <2>. QED  BY <2>1, <2>2 DEF PumpEndAt, End
<1>3. rcv.in = End(rcv.chan, PumpEndAt) /\ \A x \in Pieces(rcv.chan) : x.hi <= snd.next
  BY DEF Inv, Chain, PumpChain, Sound
<1>4. rcv.chan # << >> => rcv.chan[Len(rcv.chan)] \in Pieces(rcv.chan)
  BY <1>1 DEF Pieces
<1>. QED  BY <1>2, <1>3, <1>4 DEF End

\* The FIN that waited for room is queued behind everything, or given up.
LEMMA LateFinInv == Inv /\ LateFin => Inv'
<1> SUFFICES ASSUME Inv, LateFin PROVE Inv'
  OBVIOUS
<1> DEFINE m == FinAt(rcv.in)
<1>0. /\ rcv \in Receiver /\ broken \in BOOLEAN /\ rcv.in \in Nat /\ rcv.used \in Nat
      /\ rcv.chan \in Seq(Msg) /\ wire \in Seq(Msg) /\ rcv.in \in Offset
      /\ PumpEndAt \in Nat /\ PipeEnd \in Nat /\ snd.next \in Nat
  BY Types DEF Inv, TypeOK, Receiver
<1>1. m \in Msg /\ m.lo = rcv.in /\ m.hi = rcv.in /\ m.kind = "fin"
  BY <1>0 DEF FinAt, Msg
<1> HIDE DEF m
<1>2. UNCHANGED <<snd, wire, app, broken>> /\ rcv.late
  BY DEF LateFin
<1>3. Sound(wire)' /\ (~broken => FinsLast(wire)')
  BY <1>2 DEF Inv, Chain, Sound, FinPlaces, FinsLast
<1>4. CASE rcv' = [rcv EXCEPT !.late = FALSE]
  <2>1. /\ rcv' \in Receiver /\ rcv'.chan = rcv.chan /\ rcv'.used = rcv.used
        /\ rcv'.pump = rcv.pump /\ rcv'.cur = rcv.cur /\ rcv'.cost = rcv.cost
        /\ rcv'.in = rcv.in /\ rcv'.slot = rcv.slot /\ ~rcv'.late
    BY Zenon, <1>0, <1>4 DEF Receiver
  <2>2. rcv'.slot \/ broken
    BY <2>1 DEF Inv, Pump
  <2>3. rcv.pump = "run" /\ rcv'.slot => WireChain'
    BY <1>2, <2>1 DEF Inv, Chain, WireChain
  <2>. QED  BY <1>0, <1>2, <1>3, <2>1, <2>2, <2>3, SlotInv
<1>5. CASE /\ rcv.pump = "run" /\ Len(rcv.chan) < PushMsgs
           /\ rcv' = [rcv EXCEPT !.late = FALSE, !.chan = Append(@, m)]
  <2>1. Append(rcv.chan, m) \in Seq(Msg)
    BY <1>0, <1>1
  <2>2. /\ rcv' \in Receiver /\ rcv'.chan = Append(rcv.chan, m) /\ rcv'.in = rcv.in
        /\ rcv'.used = rcv.used /\ rcv'.cur = rcv.cur /\ rcv'.cost = rcv.cost
        /\ rcv'.pump = rcv.pump /\ rcv'.slot = rcv.slot /\ ~rcv'.late
    BY Zenon, <1>0, <1>5, <2>1 DEF Receiver
  <2>3. /\ rcv'.pump = "run" /\ rcv'.used <= PushBytes /\ m.lo <= m.hi
        /\ rcv'.in = m.hi /\ rcv'.used = rcv.used + Size(m)
    BY <1>0, <1>1, <1>5, <2>2 DEF Inv, Accounts, Size
  <2>4. rcv.slot => WireChain'
    BY <1>2, <1>5, <2>2 DEF Inv, Chain, WireChain
  <2>5. ~broken => snd.fin /\ m.lo >= snd.upto
    BY <1>1, <1>2 DEF Inv, FinPlaces
  <2>6. m.hi <= snd.next
    BY <1>0, <1>1, <1>5, ChannelEnd
  <2>. QED  BY <1>0, <1>1, <1>2, <1>3, <1>5, <2>2, <2>3, <2>4, <2>5, <2>6, ChannelInv
<1>. QED  BY <1>4, <1>5 DEF LateFin, m

\* The receiver's stream is removed.
LEMMA RemoveInv == Inv /\ Remove => Inv'
<1> SUFFICES ASSUME Inv, Remove PROVE Inv'
  OBVIOUS
<1>1. rcv \in Receiver /\ wire \in Seq(Msg)
  BY DEF Inv, TypeOK
<1>2. rcv' = [rcv EXCEPT !.slot = FALSE] /\ broken' = TRUE /\ UNCHANGED <<snd, wire, app>>
  BY DEF Remove
<1>3. /\ rcv' \in Receiver /\ ~rcv'.slot /\ rcv'.chan = rcv.chan /\ rcv'.used = rcv.used
      /\ rcv'.pump = rcv.pump /\ rcv'.cur = rcv.cur /\ rcv'.cost = rcv.cost
      /\ rcv'.in = rcv.in
  BY Zenon, <1>1, <1>2 DEF Receiver
<1>4. Sound(wire)'
  BY <1>2 DEF Inv, Chain, Sound
<1>. QED  BY <1>1, <1>2, <1>3, <1>4, SlotInv

-----------------------------------------------------------------------------
(* The pump task and the reading application.                              *)

\* The pump task ends, at a FIN or because the stream or its reader is gone.
LEMMA StoppedInv ==
  ASSUME Inv, NEW how \in {"fin", "off"}, rcv' = Stopped(how), UNCHANGED <<snd, wire, app, broken>>,
         how = "off" => broken \/ app.gone,
         how = "fin" /\ ~broken => snd.fin /\ PipeEnd >= snd.upto
  PROVE  Inv'
<1>0. rcv \in Receiver /\ << >> \in Seq(Msg)
  BY DEF Inv, TypeOK
<1>1. /\ rcv' \in Receiver /\ rcv'.pump = how /\ rcv'.chan = << >> /\ rcv'.cur = << >>
      /\ rcv'.slot = rcv.slot /\ rcv'.late = rcv.late /\ rcv'.in = rcv.in
  BY Zenon, <1>0 DEF Stopped, Receiver
<1>2. ReadEnd' = ReadEnd /\ PipeEnd' = PipeEnd
  BY DEF ReadEnd, PipeEnd
<1>3. TypeOK'
  BY <1>1 DEF Inv, TypeOK
<1>4. Pieces(rcv'.chan) = {} /\ Pieces(rcv'.cur) = {}
  BY <1>1 DEF Pieces
<1>5. Chain'
  BY <1>1, <1>2, <1>4 DEF Inv, Chain, ReadChain, QueueChain, Sound
<1>6. FinPlaces'
  BY <1>1, <1>2, <1>4 DEF Inv, FinPlaces, FinsLast
<1>7. Pump' /\ Accounts'
  BY <1>1, <1>2 DEF Inv, Pump, Accounts
<1>. QED  BY <1>3, <1>5, <1>6, <1>7 DEF Inv

\* The pump takes the next message.
LEMMA PumpTakeInv == Inv /\ PumpTake => Inv'
<1> SUFFICES ASSUME Inv, PumpTake PROVE Inv'
  OBVIOUS
<1> DEFINE m == Head(rcv.chan)
<1>0. /\ rcv \in Receiver /\ rcv.chan \in Seq(Msg) /\ rcv.in \in Nat /\ rcv.used \in Nat
      /\ rcv.cost \in Nat /\ PumpEndAt \in Nat /\ PipeEnd \in Nat /\ ReadEnd \in Nat
      /\ snd.upto \in Nat
  BY Types DEF Inv
<1>1. /\ rcv.pump = "run" /\ rcv.cur = << >> /\ rcv.chan # << >>
      /\ rcv' = IF m.kind = "fin" THEN Stopped("fin")
                ELSE [rcv EXCEPT !.chan = Tail(@), !.cur = <<m>>, !.cost = Size(m)]
      /\ UNCHANGED <<snd, wire, app, broken>>
  BY DEF PumpTake
<1>2. PumpEndAt = PipeEnd
  BY <1>1 DEF PumpEndAt, End
<1>3. Contig(rcv.chan, PumpEndAt) /\ End(rcv.chan, PumpEndAt) = rcv.in
  BY <1>1 DEF Inv, Chain, PumpChain
<1>4. /\ Tail(rcv.chan) \in Seq(Msg) /\ m \in Msg /\ m \in Pieces(rcv.chan)
      /\ Pieces(Tail(rcv.chan)) \subseteq Pieces(rcv.chan)
      /\ m.lo = PipeEnd /\ Contig(Tail(rcv.chan), m.hi) /\ End(Tail(rcv.chan), m.hi) = rcv.in
  BY <1>0, <1>1, <1>2, <1>3, TailMsg
<1>5. m.lo \in Nat /\ m.hi \in Nat /\ m.lo <= m.hi /\ m.hi <= rcv.in
  BY <1>1, <1>4, Offsets DEF Inv, Chain, PumpChain, Sound
<1> HIDE DEF m
<1>6. CASE m.kind = "fin"
  <2>1. ~broken => snd.fin /\ PipeEnd >= snd.upto
    BY <1>4, <1>6 DEF Inv, FinPlaces, FinsLast
  <2>. QED  BY <1>1, <1>6, <2>1, StoppedInv
<1>7. CASE m.kind # "fin"
  <2>0. m.kind = "data"
    BY <1>4, <1>7 DEF Msg
  <2>1. <<m>> \in Seq(Msg) /\ Size(m) \in Nat
    BY <1>4, <1>5 DEF Size
  <2>2. /\ rcv' \in Receiver /\ rcv'.chan = Tail(rcv.chan) /\ rcv'.cur = <<m>>
        /\ rcv'.cost = Size(m) /\ rcv'.used = rcv.used /\ rcv'.in = rcv.in
        /\ rcv'.pump = "run" /\ rcv'.slot = rcv.slot /\ rcv'.late = rcv.late
    BY Zenon, <1>0, <1>1, <1>4, <1>7, <2>1 DEF Receiver
  <2>3. /\ Pieces(<<m>>) = {m} /\ Contig(<<m>>, PipeEnd) /\ \A e : End(<<m>>, e) = m.hi
        /\ Len(<<m>>) = 1 /\ <<m>>[1] = m
    BY <1>4, <1>5 DEF Pieces, Contig, End
  <2>4. ReadEnd' = ReadEnd /\ PipeEnd' = PipeEnd /\ PumpEndAt' = m.hi
    <3>1. ReadEnd' = ReadEnd /\ PipeEnd' = PipeEnd
      BY <1>1 DEF ReadEnd, PipeEnd
    <3>. QED  BY <2>2, <2>3, <3>1 DEF PumpEndAt
  <2>5. PumpChain'
    BY <1>1, <1>4, <1>5, <2>2, <2>3, <2>4 DEF Inv, Chain, PumpChain
  <2>6. Sound(rcv.chan)' /\ Sound(rcv.cur)'
    BY <1>1, <1>4, <2>2, <2>3 DEF Inv, Chain, Sound
  <2>7. Chain'
    BY <1>1, <2>2, <2>4, <2>5, <2>6 DEF Inv, Chain, ReadChain, QueueChain, WireChain, Sound
  <2>8. FinPlaces'
    BY <1>1, <1>4, <2>2, <2>4 DEF Inv, FinPlaces, FinsLast
  <2>9. Accounts'
    <3>1. rcv.used = (rcv.in - PipeEnd) + 0 /\ rcv.used <= PushBytes
      BY <1>1, <1>2 DEF Inv, Accounts
    <3>2. /\ rcv'.used = (rcv'.in - PumpEndAt') + rcv'.cost /\ rcv'.used <= PushBytes
          /\ rcv'.cost >= PumpEndAt' - PipeEnd'
      BY <1>0, <1>4, <1>5, <2>2, <2>4, <3>1 DEF Size
    <3>3. rcv'.cur # << >>
      BY <2>2
    <3>. QED  BY <1>1, <2>4, <3>2, <3>3 DEF Inv, Accounts
  <2>10. Pump'
    BY <1>1, <2>0, <2>2, <2>3 DEF Inv, Pump
  <2>. QED  BY <1>1, <2>2, <2>7, <2>8, <2>9, <2>10 DEF Inv, TypeOK
<1>. QED  BY <1>6, <1>7

\* A part of a message of one piece is a chain of its own.
LEMMA OneMsg ==
  ASSUME NEW m \in Msg, m.lo <= m.hi
  PROVE  /\ <<m>> \in Seq(Msg) /\ Pieces(<<m>>) = {m} /\ Contig(<<m>>, m.lo)
         /\ \A e : End(<<m>>, e) = m.hi
         /\ Len(<<m>>) = 1 /\ <<m>>[1] = m /\ <<m>> # << >>
BY DEF Pieces, Contig, End

\* The pump writes what fits of the message in hand.
LEMMA PumpWriteInv == Inv /\ PumpWrite => Inv'
<1> SUFFICES ASSUME Inv, PumpWrite PROVE Inv'
  OBVIOUS
<1> DEFINE m == Head(rcv.cur)
           room == m.lo + (PipeBytes - app.level)
           h == IF m.hi <= room THEN m.hi ELSE room
           c == ChunkOf(m.lo, h)
<1>0. /\ rcv \in Receiver /\ app \in Reader /\ rcv.chan \in Seq(Msg) /\ rcv.cur \in Seq(Msg)
      /\ app.pipe \in Seq(Chunk) /\ rcv.in \in Nat /\ rcv.used \in Nat
      /\ rcv.cost \in Nat /\ PumpEndAt \in Nat /\ PipeEnd \in Nat /\ ReadEnd \in Nat
      /\ snd.next \in Nat /\ app.level \in Nat /\ PipeBytes \in Nat
  BY Types, DataAssumption DEF Inv
<1>1. /\ rcv.pump = "run" /\ rcv.cur # << >> /\ app.level < PipeBytes
      /\ app' = [app EXCEPT !.pipe = Append(@, c), !.level = @ + (h - m.lo)]
      /\ rcv' = IF h = m.hi
                THEN [rcv EXCEPT !.cur = << >>, !.used = @ - rcv.cost, !.cost = 0]
                ELSE [rcv EXCEPT !.cur = <<Data(h, m.hi)>>]
      /\ UNCHANGED <<snd, wire, broken>>
  BY DEF PumpWrite
<1>2. m \in Msg /\ m \in Pieces(rcv.cur) /\ m.lo = PipeEnd /\ m.kind = "data" /\ PumpEndAt = m.hi
  <2>1. rcv.cur = <<m>> /\ m = rcv.cur[1] /\ m.kind = "data"
    <3>1. rcv.cur \in Seq(Msg) /\ Len(rcv.cur) = 1 /\ rcv.cur[1].kind = "data"
      BY <1>0, <1>1 DEF Inv, Pump
    <3>. QED  BY <3>1
  <2>2. m \in Msg /\ m \in Pieces(rcv.cur) /\ m.lo = PipeEnd
    <3>1. rcv.cur \in Seq(Msg) /\ PipeEnd \in Nat /\ rcv.cur # << >> /\ Contig(rcv.cur, PipeEnd)
      BY <1>0, <1>1 DEF Inv, Chain, PumpChain
    <3>. QED  BY Zenon, <3>1, TailMsg
  <2>3. End(rcv.cur, PipeEnd) = m.hi
    BY <2>1 DEF End
  <2>. QED  BY <2>1, <2>2, <2>3 DEF PumpEndAt
<1>3. m.lo \in Nat /\ m.hi \in Nat /\ m.lo <= m.hi /\ m.hi <= snd.next /\ m.hi \in Offset
  BY <1>2, Offsets DEF Inv, Chain, Sound, Msg
<1> HIDE DEF m
<1>4. h \in Nat /\ m.lo <= h /\ h <= m.hi /\ app.level + (h - m.lo) <= PipeBytes
  <2>1. /\ app.level \in Nat /\ PipeBytes \in Nat /\ app.level < PipeBytes
        /\ m.lo \in Nat /\ m.hi \in Nat /\ m.lo <= m.hi
    BY <1>0, <1>1, <1>3
  <2>2. room \in Nat /\ m.lo <= room /\ app.level + (room - m.lo) = PipeBytes
    BY <2>1
  <2> HIDE DEF room
  <2>3. CASE m.hi <= room
    BY <2>1, <2>2, <2>3
  <2>4. CASE ~(m.hi <= room)
    BY <2>1, <2>2, <2>4
  <2>. QED  BY <2>3, <2>4
<1> HIDE DEF h
<1>5. h \in Offset /\ m.lo \in Offset
  BY <1>2, <1>3, <1>4, DataAssumption DEF Offset, Msg
<1>6. c \in Chunk /\ c.lo = m.lo /\ c.hi = h
  BY <1>5 DEF ChunkOf, Chunk
<1> HIDE DEF c
<1>7. /\ Append(app.pipe, c) \in Seq(Chunk) /\ Pieces(Append(app.pipe, c)) = Pieces(app.pipe) \cup {c}
      /\ Contig(Append(app.pipe, c), ReadEnd) /\ End(Append(app.pipe, c), ReadEnd) = h
  <2>1. Contig(app.pipe, ReadEnd) /\ c.lo = End(app.pipe, ReadEnd) /\ c.lo <= c.hi
    BY <1>2, <1>4, <1>6 DEF Inv, Chain, ReadChain, PipeEnd
  <2>2. app.pipe \in Seq(Chunk) /\ ReadEnd \in Nat
    BY <1>0
  <2>. QED  BY Zenon, <1>6, <2>1, <2>2, AppendChunk
<1>8. app.level + (h - m.lo) \in Nat
  <2>1. app.level \in Nat /\ m.lo \in Nat /\ h \in Nat /\ m.lo <= h
    BY <1>0, <1>3, <1>4
  <2>. QED  BY <2>1
<1>9. /\ app' \in Reader /\ app'.pipe = Append(app.pipe, c) /\ app'.level = app.level + (h - m.lo)
      /\ app'.got = app.got /\ app'.eof = app.eof /\ app'.gone = app.gone
  BY Zenon, <1>0, <1>1, <1>7, <1>8 DEF Reader
<1>10. ReadEnd' = ReadEnd /\ PipeEnd' = h
  <2>1. ReadEnd' = ReadEnd
    BY <1>9 DEF ReadEnd
  <2>. QED  BY <1>7, <1>9, <2>1 DEF PipeEnd
<1>11. ReadChain'
  <2>1. \A x \in Pieces(app.pipe) : x \in Chunk /\ x.hi <= PipeEnd
    BY <1>0, PiecesOf DEF Inv, Chain, ReadChain
  <2>2. \A x \in Pieces(app'.pipe) : x.hi <= h
    <3>1. \A x \in Pieces(app.pipe) : x.hi \in Nat /\ x.hi <= PipeEnd
      BY <2>1, Offsets
    <3> DEFINE e == PipeEnd
    <3>4. e \in Nat /\ h \in Nat /\ e <= h
      BY <1>0, <1>2, <1>4
    <3> HIDE DEF e
    <3>5. \A n \in Nat : n <= e => n <= h
      BY <3>4
    <3>2. \A x \in Pieces(app.pipe) : x.hi <= h
      BY Zenon, <3>1, <3>5 DEF e
    <3>. QED  BY <1>4, <1>6, <1>7, <1>9, <3>2
  <2>3. Contig(app'.got, 0) /\ Contig(app'.pipe, ReadEnd') /\ h <= snd'.next
    <3>1. h <= snd.next
      BY <1>0, <1>3, <1>4
    <3>. QED  BY <1>1, <1>7, <1>9, <1>10, <3>1 DEF Inv, Chain, ReadChain
  <2>. QED  BY <1>10, <2>2, <2>3 DEF ReadChain
<1>12. app'.level = PipeEnd' - ReadEnd' /\ app'.level <= PipeBytes
  <2>1. app.level = PipeEnd - ReadEnd
    BY DEF Inv, Accounts
  <2>. QED  BY <1>0, <1>2, <1>4, <1>9, <1>10, <2>1
<1>13. rcv.used = (rcv.in - m.hi) + rcv.cost /\ rcv.used <= PushBytes /\ rcv.cost >= m.hi - m.lo
  BY <1>1, <1>2 DEF Inv, Accounts
<1>14. m.hi <= rcv.in /\ Contig(rcv.chan, m.hi) /\ End(rcv.chan, m.hi) = rcv.in
  BY <1>1, <1>2 DEF Inv, Chain, PumpChain
<1>15. ASSUME rcv' \in Receiver, rcv'.chan = rcv.chan, rcv'.in = rcv.in, rcv'.pump = "run",
              rcv'.slot = rcv.slot, rcv'.late = rcv.late, PumpEndAt' = m.hi,
              Contig(rcv'.cur, h), Sound(rcv.cur)', rcv'.used <= PushBytes,
              rcv'.used = (rcv.in - m.hi) + rcv'.cost, rcv'.cost >= m.hi - h,
              rcv'.cur = << >> => rcv'.cost = 0,
              rcv'.cur # << >> => Len(rcv'.cur) = 1 /\ rcv'.cur[1].kind = "data"
       PROVE  Inv'
  <2>1. PumpChain'
    BY <1>1, <1>10, <1>14, <1>15 DEF Inv, Chain, PumpChain
  <2>2. Chain'
    BY <1>1, <1>11, <1>15, <2>1 DEF Inv, Chain, QueueChain, WireChain, Sound
  <2>3. FinPlaces'
    BY <1>1, <1>15 DEF Inv, FinPlaces, FinsLast
  <2>4. Accounts'
    BY <1>1, <1>10, <1>12, <1>15 DEF Inv, Accounts
  <2>5. Pump'
    BY <1>1, <1>9, <1>15 DEF Inv, Pump
  <2>6. TypeOK'
    BY <1>1, <1>9, <1>15 DEF Inv, TypeOK
  <2>. QED  BY <2>2, <2>3, <2>4, <2>5, <2>6 DEF Inv
<1>16. CASE h = m.hi
  <2>1. rcv.used - rcv.cost \in Nat /\ rcv.used - rcv.cost = (rcv.in - m.hi) + 0
        /\ rcv.used - rcv.cost <= PushBytes /\ 0 >= m.hi - h
    <3>1. rcv.used \in Nat /\ rcv.cost \in Nat /\ rcv.in \in Nat /\ m.hi \in Nat /\ PushBytes \in Nat
      BY <1>0, <1>3, DataAssumption
    <3>. QED  BY <1>13, <1>14, <1>16, <3>1
  <2>2. << >> \in Seq(Msg) /\ Pieces(<< >>) = {}
    BY DEF Pieces
  <2>3. /\ rcv' \in Receiver /\ rcv'.cur = << >> /\ rcv'.used = rcv.used - rcv.cost
        /\ rcv'.cost = 0 /\ rcv'.chan = rcv.chan /\ rcv'.in = rcv.in
        /\ rcv'.pump = "run" /\ rcv'.slot = rcv.slot /\ rcv'.late = rcv.late
    BY Zenon, <1>0, <1>1, <1>16, <2>1, <2>2 DEF Receiver
  <2>4. Contig(rcv'.cur, h) /\ Sound(rcv.cur)' /\ PumpEndAt' = m.hi
    BY <1>10, <1>16, <2>2, <2>3, EndOf DEF Sound, PumpEndAt
  <2>. QED  BY <1>15, <2>1, <2>3, <2>4
<1>17. CASE h # m.hi
  <2> DEFINE d == Data(h, m.hi)
  <2>1. d \in Msg /\ d.lo = h /\ d.hi = m.hi /\ d.kind = "data"
    BY <1>3, <1>5 DEF Data, Msg
  <2> HIDE DEF d
  <2>2. /\ <<d>> \in Seq(Msg) /\ Pieces(<<d>>) = {d} /\ Contig(<<d>>, h)
        /\ \A e : End(<<d>>, e) = m.hi
        /\ Len(<<d>>) = 1 /\ <<d>>[1] = d /\ <<d>> # << >>
    BY <1>4, <2>1, OneMsg
  <2>3. rcv' = [rcv EXCEPT !.cur = <<d>>]
    BY <1>1, <1>17 DEF d
  <2>4. /\ rcv' \in Receiver /\ rcv'.cur = <<d>> /\ rcv'.used = rcv.used
        /\ rcv'.cost = rcv.cost /\ rcv'.chan = rcv.chan /\ rcv'.in = rcv.in
        /\ rcv'.pump = "run" /\ rcv'.slot = rcv.slot /\ rcv'.late = rcv.late
    BY Zenon, <1>0, <1>1, <2>2, <2>3 DEF Receiver
  <2>5. Contig(rcv'.cur, h) /\ Sound(rcv.cur)' /\ PumpEndAt' = m.hi
    BY <1>1, <1>3, <1>4, <2>1, <2>2, <2>4 DEF Sound, PumpEndAt
  <2>6. rcv'.cost >= m.hi - h
    <3>1. /\ rcv.cost \in Nat /\ m.lo \in Nat /\ m.hi \in Nat /\ h \in Nat /\ m.lo <= h
          /\ rcv.cost >= m.hi - m.lo
      BY <1>0, <1>3, <1>4, <1>13
    <3>2. rcv.cost >= m.hi - h
      BY <3>1
    <3>. QED  BY <2>4, <3>2
  <2>. QED  BY <1>13, <1>15, <2>1, <2>2, <2>4, <2>5, <2>6
<1>. QED  BY <1>16, <1>17

\* A piece put in front of a sequence is one of its pieces.
LEMMA PrependPieces ==
  ASSUME NEW S, NEW q \in Seq(S), NEW m \in S
  PROVE  Pieces(<<m>> \o q) = {m} \cup Pieces(q)
<1> DEFINE t == <<m>> \o q
<1>1. /\ Len(t) = Len(q) + 1 /\ Len(q) \in Nat /\ t[1] = m
      /\ \A i \in 1 .. Len(q) : t[i + 1] = q[i]
      /\ \A i \in 2 .. Len(t) : t[i] = q[i - 1] /\ i - 1 \in 1 .. Len(q)
  OBVIOUS
<1> HIDE DEF t
<1>2. ASSUME NEW x \in Pieces(t) PROVE x \in {m} \cup Pieces(q)
  BY <1>1 DEF Pieces
<1>3. m \in Pieces(t)
  BY <1>1 DEF Pieces
<1>4. ASSUME NEW i \in 1 .. Len(q) PROVE q[i] \in Pieces(t)
  <2>1. i + 1 \in 1 .. Len(t) /\ t[i + 1] = q[i]
    BY <1>1
  <2>. QED  BY <2>1 DEF Pieces
<1>. QED  BY <1>2, <1>3, <1>4 DEF Pieces, t

\* The application reads the first bytes of the pipe.
LEMMA ReadInv == Inv /\ Read => Inv'
<1> SUFFICES ASSUME Inv, Read PROVE Inv'
  OBVIOUS
<1> DEFINE c == Head(app.pipe)
<1>0. /\ app \in Reader /\ app.pipe \in Seq(Chunk) /\ app.got \in Seq(Chunk)
      /\ app.level \in Nat /\ ReadEnd \in Nat /\ PipeEnd \in Nat /\ snd.next \in Nat
  BY SMTT(30), Types DEF Inv
<1>1. PICK h \in c.lo + 1 .. c.hi :
        app' = [app EXCEPT !.got = Append(@, ChunkOf(c.lo, h)), !.level = @ - (h - c.lo),
                           !.pipe = IF h = c.hi THEN Tail(@) ELSE <<ChunkOf(h, c.hi)>> \o Tail(@)]
  BY Zenon DEF Read
<1>2. app.pipe # << >> /\ UNCHANGED <<snd, wire, rcv, broken>>
  BY DEF Read
<1>3. \A x \in Chunk : x.lo \in Nat /\ x.hi \in Nat
  BY Offsets
<1>4. /\ Contig(app.got, 0) /\ Contig(app.pipe, ReadEnd) /\ PipeEnd = End(app.pipe, ReadEnd)
      /\ ReadEnd = End(app.got, 0) /\ PipeEnd <= snd.next
  BY DEF Inv, Chain, ReadChain, PipeEnd, ReadEnd
<1>5. /\ c \in Chunk /\ c.lo = ReadEnd /\ c.lo <= c.hi
      /\ Contig(Tail(app.pipe), c.hi) /\ End(Tail(app.pipe), c.hi) = PipeEnd
  <2>1. /\ c \in Chunk /\ c.lo = ReadEnd /\ ReadEnd <= c.hi
        /\ Contig(Tail(app.pipe), c.hi) /\ End(Tail(app.pipe), c.hi) = End(app.pipe, ReadEnd)
    BY Zenon, <1>0, <1>2, <1>4, TailChunk
  <2> HIDE DEF c
  <2>. QED  BY <1>4, <2>1
<1>6. /\ Tail(app.pipe) \in Seq(Chunk) /\ c \in Pieces(app.pipe)
      /\ Pieces(Tail(app.pipe)) \subseteq Pieces(app.pipe)
  BY Zenon, <1>0, <1>2, <1>4, TailChunk
<1>7. c.lo \in Nat /\ c.hi \in Nat /\ h \in Nat /\ c.lo < h /\ h <= c.hi /\ c.hi <= PipeEnd
  BY <1>3, <1>5, <1>6 DEF Inv, Chain, ReadChain
<1> DEFINE g == ChunkOf(c.lo, h)
           r == ChunkOf(h, c.hi)
           rest == IF h = c.hi THEN Tail(app.pipe) ELSE <<r>> \o Tail(app.pipe)
<1>8. g \in Chunk /\ g.lo = c.lo /\ g.hi = h /\ r \in Chunk /\ r.lo = h /\ r.hi = c.hi
  <2>1. c.lo \in Offset /\ c.hi \in Offset
    BY <1>5 DEF Chunk
  <2>2. h \in Offset
    BY <1>7, <2>1, DataAssumption DEF Offset
  <2>. QED  BY <2>1, <2>2 DEF ChunkOf, Chunk
<1> HIDE DEF c, g, r
<1>9. /\ Append(app.got, g) \in Seq(Chunk)
      /\ Contig(Append(app.got, g), 0) /\ End(Append(app.got, g), 0) = h
  <2>1. g.lo = End(app.got, 0) /\ g.lo <= g.hi
    BY <1>4, <1>5, <1>7, <1>8
  <2>2. 0 \in Nat
    OBVIOUS
  <2>. QED  BY Zenon, <1>0, <1>4, <1>8, <2>1, <2>2, AppendChunk
<1>10. rest \in Seq(Chunk) /\ Contig(rest, h) /\ End(rest, h) = PipeEnd
  <2>1. CASE h = c.hi
    BY <1>5, <1>6, <2>1
  <2>2. CASE h # c.hi
    <3>1. r.hi = Head(app.pipe).hi /\ r.lo <= r.hi
      BY <1>7, <1>8 DEF c
    <3>2. /\ Contig(<<r>> \o Tail(app.pipe), r.lo)
          /\ End(<<r>> \o Tail(app.pipe), r.lo) = End(app.pipe, ReadEnd)
          /\ <<r>> \o Tail(app.pipe) \in Seq(Chunk)
      <4> DEFINE q == app.pipe
                 e == ReadEnd
      <4>1. q \in Seq(Chunk) /\ e \in Nat /\ q # << >> /\ Contig(q, e)
        BY <1>0, <1>2, <1>4
      <4>2. r \in Chunk /\ r.hi = Head(q).hi /\ r.lo <= r.hi
        BY <1>8, <3>1
      <4> HIDE DEF q, e
      <4>3. /\ Contig(<<r>> \o Tail(q), r.lo) /\ End(<<r>> \o Tail(q), r.lo) = End(q, e)
            /\ <<r>> \o Tail(q) \in Seq(Chunk)
        BY <1>3, <4>1, <4>2, CutChain
      <4>. QED  BY <4>3 DEF q, e
    <3>. QED  BY <1>4, <1>8, <2>2, <3>2
  <2>. QED  BY <2>1, <2>2
<1>11. \A x \in Pieces(rest) : x.hi <= PipeEnd
  <2>1. \A x \in Pieces(app.pipe) : x.hi <= PipeEnd
    BY DEF Inv, Chain, ReadChain
  <2>2. CASE h = c.hi
    BY <1>6, <2>1, <2>2
  <2>3. CASE h # c.hi
    <3>1. Pieces(<<r>> \o Tail(app.pipe)) = {r} \cup Pieces(Tail(app.pipe))
      BY Zenon, <1>6, <1>8, PrependPieces
    <3>. QED  BY <1>6, <1>7, <1>8, <2>1, <2>3, <3>1
  <2>. QED  BY <2>2, <2>3
<1>12. app.level = PipeEnd - ReadEnd /\ app.level <= PipeBytes
  BY DEF Inv, Accounts
<1>13. /\ app.level - (h - c.lo) \in Nat /\ app.level - (h - c.lo) = PipeEnd - h
       /\ app.level - (h - c.lo) <= PipeBytes
  BY <1>0, <1>5, <1>7, <1>12, DataAssumption
<1>14. app' = [app EXCEPT !.got = Append(@, g), !.level = @ - (h - c.lo), !.pipe = rest]
  BY <1>1 DEF c, g, r
<1> HIDE DEF rest
<1>15. /\ app' \in Reader /\ app'.got = Append(app.got, g) /\ app'.pipe = rest
       /\ app'.level = app.level - (h - c.lo) /\ app'.eof = app.eof /\ app'.gone = app.gone
  BY Zenon, <1>0, <1>9, <1>10, <1>13, <1>14 DEF Reader
<1>16. ReadEnd' = h /\ PipeEnd' = PipeEnd /\ PumpEndAt' = PumpEndAt
  <2>1. ReadEnd' = h
    BY <1>9, <1>15 DEF ReadEnd
  <2>2. PipeEnd' = PipeEnd
    BY <1>10, <1>15, <2>1 DEF PipeEnd
  <2>. QED  BY <1>2, <2>1, <2>2 DEF PumpEndAt
<1>17. ReadChain'
  BY <1>2, <1>4, <1>9, <1>10, <1>11, <1>15, <1>16 DEF ReadChain
<1>18. Chain'
  BY <1>2, <1>16, <1>17 DEF Inv, Chain, PumpChain, QueueChain, WireChain, Sound
<1>19. FinPlaces'
  BY <1>2, <1>16 DEF Inv, FinPlaces, FinsLast
<1>20. Accounts'
  BY <1>2, <1>13, <1>15, <1>16 DEF Inv, Accounts
<1>21. Pump'
  BY <1>2, <1>15 DEF Inv, Pump
<1>. QED  BY <1>2, <1>15, <1>18, <1>19, <1>20, <1>21 DEF Inv, TypeOK

\* End of file and the drop of the handle leave the bytes alone.
LEMMA ReaderInv == Inv /\ (ReadEof \/ ReaderGone) => Inv'
<1> SUFFICES ASSUME Inv, ReadEof \/ ReaderGone PROVE Inv'
  OBVIOUS
<1>1. app \in Reader
  BY DEF Inv, TypeOK
<1>2. /\ UNCHANGED <<snd, wire, rcv, broken>>
      /\ app' \in Reader /\ app'.got = app.got /\ app'.pipe = app.pipe
      /\ app'.level = app.level
      /\ app.gone => app'.gone
      /\ app'.eof => app.eof \/ (app.pipe = << >> /\ rcv.pump # "run")
  BY Zenon, <1>1 DEF ReadEof, ReaderGone, Reader
<1>3. ReadEnd' = ReadEnd /\ PipeEnd' = PipeEnd /\ PumpEndAt' = PumpEndAt
  BY <1>2 DEF ReadEnd, PipeEnd, PumpEndAt
<1>4. Chain' /\ FinPlaces'
  BY Zenon, <1>2, <1>3 DEF Inv, Chain, ReadChain, PumpChain, QueueChain, WireChain, Sound,
                    FinPlaces, FinsLast
<1>5. TypeOK' /\ Pump'
  BY <1>2 DEF Inv, TypeOK, Pump
<1>6. Accounts'
  BY <1>2, <1>3 DEF Inv, Accounts
<1>. QED  BY <1>4, <1>5, <1>6 DEF Inv

-----------------------------------------------------------------------------
(* The theorems.                                                           *)

\* The chain is empty at first.
LEMMA InitInv == Init => Inv
<1> SUFFICES ASSUME Init PROVE Inv
  OBVIOUS
<1>1. /\ 0 \in Offset /\ << >> \in Seq(Msg) /\ << >> \in Seq(Chunk) /\ Pieces(<< >>) = {}
      /\ End(<< >>, 0) = 0 /\ Contig(<< >>, 0)
  BY DataAssumption, EndOf DEF Offset, Pieces
<1>2. /\ snd.slot /\ ~snd.fin /\ snd.next = 0 /\ snd.upto = 0 /\ snd.data = << >>
      /\ ~snd.rst /\ snd.out = 0 /\ wire = << >> /\ rcv.slot /\ rcv.chan = << >>
      /\ rcv.used = 0 /\ ~rcv.late /\ rcv.pump = "run" /\ rcv.cur = << >> /\ rcv.cost = 0
      /\ rcv.in = 0 /\ app.pipe = << >> /\ app.level = 0 /\ app.got = << >> /\ ~app.eof
      /\ ~app.gone /\ broken = FALSE
  BY DEF Init
<1>3. snd \in Sender /\ rcv \in Receiver /\ app \in Reader
  BY <1>1 DEF Init, Sender, Receiver, Reader
<1>4. ReadEnd = 0 /\ PipeEnd = 0 /\ PumpEndAt = 0
  BY <1>1, <1>2 DEF ReadEnd, PipeEnd, PumpEndAt
<1>5. TypeOK
  BY Zenon, <1>1, <1>2, <1>3 DEF TypeOK
<1>6. Chain
  BY <1>1, <1>2, <1>4 DEF Chain, ReadChain, PumpChain, WireChain, QueueChain, Sound
<1>7. Pump /\ FinPlaces
  BY <1>1, <1>2, <1>4 DEF Pump, FinPlaces, FinsLast
<1>8. Accounts
  <2>1. 0 <= PipeBytes /\ 0 <= PushBytes
    BY DataAssumption
  <2>. QED  BY <1>2, <1>4, <2>1 DEF Accounts
<1>. QED  BY <1>5, <1>6, <1>7, <1>8 DEF Inv

\* Every step of the code keeps the chain.
LEMMA NextInv == Inv /\ [Next]_vars => Inv'
<1> SUFFICES ASSUME Inv, [Next]_vars PROVE Inv'
  OBVIOUS
<1>1. CASE WriteCheck \/ WriteCancel
  BY <1>1, CallInv DEF WriteCheck, WriteCancel
<1>2. CASE WriteQueue
  BY <1>2, WriteQueueInv
<1>3. CASE SendFin
  BY <1>3, SendFinInv
<1>4. CASE SenderReset
  BY <1>4, SenderResetInv
<1>5. CASE WriteControl
  BY <1>5, WriteControlInv
<1>6. CASE WriteFrame
  BY <1>6, WriteFrameInv
<1>7. CASE ReceivePush
  BY <1>7, ReceivePushInv
<1>8. CASE ReceiveFin
  BY <1>8, ReceiveFinInv
<1>9. CASE LateFin
  BY <1>9, LateFinInv
<1>10. CASE Remove
  BY <1>10, RemoveInv
<1>11. CASE PumpTake
  BY <1>11, PumpTakeInv
<1>12. CASE PumpWrite
  BY <1>12, PumpWriteInv
<1>13. CASE PumpFail \/ PumpEnd \/ PumpTimeout
  <2>1. rcv' = Stopped("off") /\ UNCHANGED <<snd, wire, app, broken>>
    BY <1>13 DEF PumpFail, PumpEnd, PumpTimeout
  <2>2. broken \/ app.gone
    BY <1>13 DEF PumpFail, PumpEnd, PumpTimeout, Inv, Pump
  <2>. QED  BY <2>1, <2>2, StoppedInv
<1>14. CASE Read
  BY <1>14, ReadInv
<1>15. CASE ReadEof \/ ReaderGone
  BY <1>15, ReaderInv
<1>16. CASE UNCHANGED vars
  <2>1. UNCHANGED <<snd, wire, rcv, app, broken>>
    BY <1>16 DEF vars
  <2>2. ReadEnd' = ReadEnd /\ PipeEnd' = PipeEnd /\ PumpEndAt' = PumpEndAt
    BY SMTT(30), <2>1 DEF ReadEnd, PipeEnd, PumpEndAt
  <2>3. Chain' /\ FinPlaces'
    BY <2>1, <2>2 DEF Inv, Chain, ReadChain, PumpChain, QueueChain, WireChain, Sound,
                      FinPlaces, FinsLast
  <2>. QED  BY <2>1, <2>2, <2>3 DEF Inv, TypeOK, Pump, Accounts
<1>. QED
  BY <1>1, <1>2, <1>3, <1>4, <1>5, <1>6, <1>7, <1>8, <1>9, <1>10, <1>11, <1>12, <1>13,
     <1>14, <1>15, <1>16 DEF Next, SenderStep, ReceiverStep, ReaderStep

\* Inv is an invariant.
LEMMA Invariant == Spec => []Inv
BY InitInv, NextInv, PTL DEF Spec

\* Queues, channel and pipe always hold what their declarations allow.
THEOREM DataTypeCorrect == Spec => []TypeOK
<1>1. Inv => TypeOK
  BY DEF Inv
<1>. QED  BY <1>1, Invariant, PTL

\* However slowly the application reads, push_slots and the pipe bound what the session
\* holds of the stream, for every size of either (receive_loop's try_acquire_many).
THEOREM BacklogIsBounded == Spec => []BacklogBounded
<1>1. Inv => BacklogBounded
  <2> SUFFICES ASSUME Inv, rcv.pump = "run" PROVE rcv.in - End(app.got, 0) <= PushBytes + PipeBytes
    BY DEF BacklogBounded
  <2>1. /\ rcv.in \in Nat /\ rcv.used \in Nat /\ rcv.cost \in Nat /\ app.level \in Nat
        /\ ReadEnd \in Nat /\ PipeEnd \in Nat /\ PumpEndAt \in Nat
    BY Types DEF Inv
  <2>2. /\ app.level = PipeEnd - ReadEnd /\ app.level <= PipeBytes
        /\ rcv.used = (rcv.in - PumpEndAt) + rcv.cost /\ rcv.used <= PushBytes
        /\ rcv.cost >= PumpEndAt - PipeEnd
    BY DEF Inv, Accounts
  <2>3. PushBytes \in Nat /\ PipeBytes \in Nat
    BY DataAssumption
  <2>4. rcv.in - ReadEnd <= PushBytes + PipeBytes
    BY <2>1, <2>2, <2>3
  <2>. QED  BY <2>4 DEF ReadEnd
<1>. QED  BY <1>1, Invariant, PTL

\* Every step is one of a byte stream, or none: what is read is what was written, in
\* order, once and without a gap, and end of file comes after everything written before
\* the FIN unless the stream was broken off, for every size of the queues and the pipe.
THEOREM RefinesByteStream == Spec => Delivers
<1>1. Init => Abstract!Init
  BY DEF Init, Abstract!Init
<1>2. Inv /\ [Next]_vars => [Abstract!Next]_(Abstract!avars)
  <2> SUFFICES ASSUME Inv, [Next]_vars PROVE [Abstract!Next]_(Abstract!avars)
    OBVIOUS
  <2>0. /\ snd \in Sender /\ app \in Reader /\ snd.next \in Nat /\ snd.upto \in Nat
        /\ ReadEnd \in Nat /\ PipeEnd \in Nat /\ app.pipe \in Seq(Chunk)
    BY Types DEF Inv
  <2>1. CASE /\ UNCHANGED <<snd.next, snd.fin, snd.upto, app.got, app.eof, broken>>
    BY <2>1 DEF Abstract!avars
  <2>2. CASE WriteQueue
    <3>1. PICK h \in snd.next + 1 .. snd.next + MaxFrame :
            /\ h <= MaxBytes
            /\ snd' = [snd EXCEPT !.call = "wait", !.next = h,
                                  !.data = Append(@, Data(snd.next, h))]
      BY Zenon, <2>2 DEF WriteQueue
    <3>2. snd'.next = h /\ snd'.fin = snd.fin /\ snd'.upto = snd.upto /\ h \in snd.next + 1 .. MaxBytes
      BY <2>0, <3>1, DataAssumption DEF Sender
    <3>3. UNCHANGED <<app, broken>>
      BY <2>2 DEF WriteQueue
    <3>. QED  BY SMTT(30), <3>2, <3>3 DEF Abstract!Next, Abstract!Write
  <2>3. CASE SendFin
    <3>1. /\ ~snd.fin /\ snd'.fin /\ snd'.upto = snd.next /\ snd'.next = snd.next
          /\ UNCHANGED <<app, broken>> /\ snd'.fin = TRUE
      BY <2>0, <2>3 DEF SendFin, Sender
    <3>. QED  BY <3>1 DEF Abstract!Next, Abstract!Fin
  <2>4. CASE SenderReset \/ Remove \/ (ReceivePush /\ broken' # broken)
    <3>1. /\ snd'.next = snd.next /\ snd'.fin = snd.fin /\ snd'.upto = snd.upto
          /\ UNCHANGED app /\ broken' = TRUE
      BY Zenon, <2>0, <2>4 DEF SenderReset, Remove, ReceivePush, Sender
    <3>. QED  BY <3>1 DEF Abstract!Next, Abstract!Break
  <2>5. CASE Read
    <3> DEFINE c == Head(app.pipe)
    <3>1. PICK h \in c.lo + 1 .. c.hi :
            app' = [app EXCEPT !.got = Append(@, ChunkOf(c.lo, h)), !.level = @ - (h - c.lo),
                               !.pipe = IF h = c.hi THEN Tail(@) ELSE <<ChunkOf(h, c.hi)>> \o Tail(@)]
      BY Zenon, <2>5 DEF Read
    <3>2. app.pipe # << >> /\ UNCHANGED <<snd, broken>>
      BY <2>5 DEF Read
    <3>3. \A x \in Chunk : x.lo \in Nat /\ x.hi \in Nat
      BY Offsets
    <3>4. Contig(app.pipe, ReadEnd) /\ PipeEnd <= snd.next
      BY DEF Inv, Chain, ReadChain
    <3>5. c \in Chunk /\ c.lo = ReadEnd
      BY <2>0, <3>2, <3>3, <3>4, TailChain
    <3>6. c \in Pieces(app.pipe)
      BY <2>0, <3>2, PiecesOf
    <3>7. c.hi <= PipeEnd /\ c.hi \in Nat
      BY <3>3, <3>5, <3>6 DEF Inv, Chain, ReadChain
    <3> HIDE DEF c
    <3>8. h \in ReadEnd + 1 .. snd.next
      BY <2>0, <3>4, <3>5, <3>7
    <3>9. app'.got = Append(app.got, ChunkOf(ReadEnd, h)) /\ app'.eof = app.eof
      BY <2>0, <3>1, <3>5 DEF Reader
    <3>10. ~app.eof
      BY <3>2 DEF Inv, Pump
    <3>11. ReadEnd = Abstract!End(app.got, 0) /\ ChunkOf(ReadEnd, h) = Abstract!ChunkOf(ReadEnd, h)
      BY DEF ReadEnd, End, Abstract!End, ChunkOf, Abstract!ChunkOf
    <3>12. Abstract!Read
      BY <3>2, <3>8, <3>9, <3>10, <3>11 DEF Abstract!Read
    <3>. QED  BY <3>12 DEF Abstract!Next
  <2>6. CASE ReadEof
    <3>1. /\ app.pipe = << >> /\ rcv.pump # "run" /\ ~app.gone /\ UNCHANGED <<snd, broken>>
          /\ app'.eof = TRUE /\ app'.got = app.got
      BY <2>0, <2>6 DEF ReadEof, Reader
    <3>2. rcv.pump \in {"run", "fin", "off"}
      BY DEF Inv, TypeOK, Receiver
    <3>3. PipeEnd = ReadEnd
      BY <3>1 DEF PipeEnd, End
    <3>4. broken \/ (snd.fin /\ ReadEnd >= snd.upto)
      BY <3>1, <3>2, <3>3 DEF Inv, Pump, FinPlaces
    <3>5. ReadEnd = Abstract!End(app.got, 0)
      BY DEF ReadEnd, End, Abstract!End
    <3>. QED  BY <3>1, <3>4, <3>5 DEF Abstract!Next, Abstract!Eof
  <2>7. CASE WriteCheck \/ WriteCancel \/ WriteControl \/ WriteFrame
    <3>1. /\ snd'.next = snd.next /\ snd'.fin = snd.fin /\ snd'.upto = snd.upto
          /\ UNCHANGED <<app, broken>>
      BY Zenon, <2>0, <2>7 DEF WriteCheck, WriteCancel, WriteControl, WriteFrame, Sender
    <3>. QED  BY <2>1, <3>1
  <2>8. CASE \/ ReceivePush /\ broken' = broken
             \/ ReceiveFin \/ LateFin \/ PumpTake \/ PumpFail \/ PumpEnd \/ PumpTimeout
    <3>1. UNCHANGED <<snd, app, broken>>
      BY <2>8 DEF ReceivePush, ReceiveFin, LateFin, PumpTake, PumpFail, PumpEnd, PumpTimeout
    <3>. QED  BY <2>1, <3>1
  <2>9. CASE PumpWrite \/ ReaderGone
    <3>1. UNCHANGED <<snd, broken>> /\ app'.got = app.got /\ app'.eof = app.eof
      BY Zenon, <2>0, <2>9 DEF PumpWrite, ReaderGone, Reader
    <3>. QED  BY <2>1, <3>1
  <2>10. CASE UNCHANGED vars
    BY <2>1, <2>10 DEF vars
  <2>. QED
    BY <2>2, <2>3, <2>4, <2>5, <2>6, <2>7, <2>8, <2>9, <2>10
    DEF Next, SenderStep, ReceiverStep, ReaderStep
<1>. QED  BY <1>1, <1>2, Invariant, PTL DEF Spec, Delivers, Abstract!Spec
=============================================================================
