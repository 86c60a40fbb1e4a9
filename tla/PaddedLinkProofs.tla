-------------------------- MODULE PaddedLinkProofs --------------------------
(***************************************************************************)
(* What is written through write_conn is read as it was sent, nobody       *)
(* refuses it, and both ends agree, for every scheme, every length of a    *)
(* header and of a frame, and every number of frames.                      *)
(*                                                                         *)
(* The bytes under way to a side - in the transport, left of the packet,   *)
(* held back - are whole frames: each byte lies in a block of its own      *)
(* frame.  Numbered by how many frames were completed before them, these   *)
(* are the frames that were sent and not read, in order, and waste.        *)
(***************************************************************************)
EXTENDS PaddedLink, TLAPS

-----------------------------------------------------------------------------
(* Sequences.                                                              *)

\* A sequence over a set is one over every larger set.
LEMMA SeqMonotonic == \A S, T : S \subseteq T => \A q \in Seq(S) : q \in Seq(T)
OBVIOUS

\* What is in a sequence is in its set.
LEMMA ElementOfSeq == \A S : \A q \in Seq(S) : \A n \in 1 .. Len(q) : q[n] \in S
OBVIOUS

\* The empty sequence, and how to know it.
LEMMA EmptySeq ==
  \A S : << >> \in Seq(S) /\ Len(<< >>) = 0 /\ \A q \in Seq(S) : q # << >> => Len(q) \in Nat \ {0}
OBVIOUS

\* Sequences are equal when their elements are.
LEMMA SeqEqual ==
  \A S : \A q, r \in Seq(S) :
    Len(q) = Len(r) /\ (\A i \in 1 .. Len(q) : q[i] = r[i]) => q = r
OBVIOUS

\* One sequence after another.
LEMMA ConcatProperties ==
  ASSUME NEW S, NEW q \in Seq(S), NEW r \in Seq(S)
  PROVE  /\ q \o r \in Seq(S) /\ Len(q \o r) = Len(q) + Len(r)
         /\ \A i \in 1 .. Len(q) + Len(r) :
              (q \o r)[i] = IF i <= Len(q) THEN q[i] ELSE r[i - Len(q)]
OBVIOUS

\* The empty sequence before or after one.
LEMMA ConcatEmptySeq == \A S : \A q \in Seq(S) : q \o << >> = q /\ << >> \o q = q
OBVIOUS

\* Three sequences, one after another.
Regroups(q, r, u) == (q \o r) \o u = q \o (r \o u)

\* It does not matter which two of three sequences are joined first.
LEMMA ConcatAssociative ==
  ASSUME NEW S, NEW q \in Seq(S), NEW r \in Seq(S), NEW u \in Seq(S)
  PROVE  Regroups(q, r, u)
<1> DEFINE a == (q \o r) \o u
           b == q \o (r \o u)
<1>1. /\ a \in Seq(S) /\ b \in Seq(S) /\ Len(a) = Len(b)
      /\ \A i \in 1 .. Len(a) : a[i] = b[i]
  OBVIOUS
<1> HIDE DEF a, b
<1>2. a = b
  BY Zenon, <1>1, SeqEqual
<1> QED  BY Zenon, <1>2 DEF Regroups, a, b

\* What is left of a sequence when its head is taken.
LEMMA HeadTailProperties ==
  ASSUME NEW S, NEW q \in Seq(S), q # << >>
  PROVE  /\ Head(q) \in S /\ Tail(q) \in Seq(S) /\ Len(Tail(q)) = Len(q) - 1
         /\ \A i \in 1 .. Len(Tail(q)) : Tail(q)[i] = q[i + 1]
OBVIOUS

\* How many bytes a frame takes.
Size(f) == Header + f.len

\* How many frames of those sent a frame is.
Counts(f) == IF f.cmd = "Waste" THEN 0 ELSE 1

\* Frame f is bytes m + 1 .. m + Size(f) of b, and of the frames s the one after the
\* k[m + 1] that end before it.
Block(b, k, s, f, m) ==
  /\ m + Size(f) <= Len(b)
  /\ \A j \in 1 .. Size(f) : b[m + j] = <<f, j>> /\ k[m + j] = k[m + 1]
  /\ k[m + Size(f) + 1] = k[m + 1] + Counts(f)
  /\ IF f.cmd = "Waste" THEN f.id = 0 ELSE k[m + 1] < Len(s) /\ s[k[m + 1] + 1] = f

\* The bytes b are whole frames: those of s after the first n, in order, and waste.
Numbered(b, k, n, s) ==
  /\ k \in [1 .. Len(b) + 1 -> Nat]
  /\ k[1] = n /\ k[Len(b) + 1] = Len(s)
  /\ \A p \in 1 .. Len(b) :
       \E f \in Frames, m \in 0 .. p - 1 : p <= m + Size(f) /\ Block(b, k, s, f, m)

\* There is such a numbering.
Carries(b, n, s) == \E k : Numbered(b, k, n, s)

\* The bytes under way to x.
Way(x) == tls[x] \o (end[Peer(x)].w.rest \o end[Peer(x)].w.buffered)

\* A packet is being written by a busy writer only, and only who buffers holds back.
WriterOK(w) ==
  /\ w.at = "idle" => w.rest = << >> /\ w.ranges = << >>
  /\ w.buffering => w.at = "idle"
  /\ ~w.buffering => w.buffered = << >>

\* What was read is what was sent first, and the rest is under way.
CarriedOK(x) ==
  /\ Len(got[x]) <= Len(sent[Peer(x)])
  /\ \A i \in 1 .. Len(got[x]) : got[x][i] = sent[Peer(x)][i]
  /\ Carries(Way(x), Len(got[x]), sent[Peer(x)])

\* What each side sends, and what may be concluded from it.
Sends(x) ==
  {f \in Frames :
     /\ ValidStreamId(f) /\ (AllowsData(f) \/ f.len = 0)
     /\ f.cmd \in (IF x = "client" THEN {"Settings", "Syn", "Push"}
                   ELSE {"Update", "ServerSettings", "Push"})
     /\ f.cmd = "Syn" => nextId > 0
     /\ f.cmd = "Settings" /\ f.scheme = "server" => scheme["client"] = "server"
     /\ f.cmd = "Update" => f.scheme = "server"}

\* All that waits in the queues of x, and all that it has sent, is of that kind.
FramesOK(x) ==
  end[x].ctl \in Seq(Sends(x)) /\ end[x].data \in Seq(Sends(x)) /\ sent[x] \in Seq(Sends(x))

\* The client's Settings come first.
ClientOK ==
  LET e == end["client"]
      s == sent["client"]
  IN  /\ opening = "new" => s = << >> /\ e.ctl = << >>
      /\ opening = "run" => s # << >> \/ e.ctl # << >>
      /\ s = << >> =>
           /\ opening \in {"new", "run"} /\ e.data = << >>
           /\ \A i \in 1 .. Len(e.ctl) : e.ctl[i].cmd = "Settings"
      /\ s # << >> => s[1].cmd = "Settings"
      /\ opening \in {"syn", "open"} => nextId > 0

\* A frame of command c is among q.
Has(q, c) == \E i \in 1 .. Len(q) : q[i].cmd = c

\* The server's answer has been queued or written.
Answered(c) == Has(end["server"].ctl, c) \/ Has(sent["server"], c)

\* The server's answers to the Settings, and what the client has learnt from those it has read.
ServerOK ==
  LET e == end["server"]
  IN  /\ ~e.w.buffering
      /\ got["server"] # << >> => e.settings
      /\ e.syn => nextId > 0
      /\ e.settings =>
           /\ e.version = 2 /\ Answered("ServerSettings")
           /\ scheme["client"] = "server" \/ Answered("Update")
      /\ Has(got["client"], "ServerSettings") => end["client"].version = 2
      /\ Has(got["client"], "Update") => scheme["client"] = "server"

\* The inductive invariant.
PlInv ==
  /\ PlTypeOK /\ NeverRefused
  /\ \A x \in Sides : WriterOK(end[x].w) /\ CarriedOK(x) /\ FramesOK(x)
  /\ ClientOK /\ ServerOK

-----------------------------------------------------------------------------
(* Frames and bytes.                                                       *)

\* There are two ends.
LEMMA PeerFacts ==
  \A x \in Sides : Peer(x) \in Sides /\ Peer(Peer(x)) = x /\ Peer(x) # x
BY DEF Sides, Peer

\* A header has a length, and the length and id fields have room.
LEMMA HeaderFacts == Header \in Nat \ {0} /\ MaxLen \in Nat \ {0} /\ MaxId \in Nat \ {0}
BY PaddingAssumption

\* The encoding of a frame is bytes of it, one after the other.
LEMMA EncodeFacts ==
  ASSUME NEW f \in Frames
  PROVE  /\ Size(f) \in Nat \ {0}
         /\ Encode(f) \in Seq(Bytes) /\ Len(Encode(f)) = Size(f)
         /\ \A j \in 1 .. Size(f) : Encode(f)[j] = <<f, j>>
<1>1. f.len \in 0 .. MaxLen
  BY DEF Frames
<1>2. Size(f) \in Nat \ {0}
  BY <1>1, HeaderFacts DEF Size
<1>3. Encode(f) = [i \in 1 .. Size(f) |-> <<f, i>>]
  BY DEF Encode, Size
<1>4. \A j \in 1 .. Size(f) : Encode(f)[j] = <<f, j>>
  BY <1>3
<1>5. Encode(f) \in Seq(Bytes) /\ Len(Encode(f)) = Size(f)
  BY <1>2, <1>3 DEF Bytes
<1> QED  BY <1>2, <1>4, <1>5

\* A waste frame whose length fits is encoded like any other.
LEMMA WasteIsFrame ==
  ASSUME NEW n \in 0 .. MaxLen
  PROVE  /\ Frame("Waste", 0, n, "none") \in Frames
         /\ Waste(n) = Encode(Frame("Waste", 0, n, "none"))
<1>1. MaxLen \in Nat /\ MaxId \in Nat
  BY PaddingAssumption
<1>2. n % (MaxLen + 1) = n
  BY <1>1
<1>3. Frame("Waste", 0, n, "none").len = n
  BY DEF Frame
<1> QED  BY <1>1, <1>2, <1>3 DEF Waste, Encode, Frame, Frames

\* Nothing carries nothing.
LEMMA CarriesNothing ==
  ASSUME NEW n, NEW s
  PROVE  /\ n = Len(s) /\ n \in Nat => Carries(<< >>, n, s)
         /\ Carries(<< >>, n, s) => n = Len(s)
<1>1. ASSUME n = Len(s), n \in Nat PROVE Carries(<< >>, n, s)
  <2>1. Numbered(<< >>, [i \in 1 .. 1 |-> n], n, s)
    BY <1>1 DEF Numbered
  <2> QED  BY <2>1 DEF Carries
<1>2. ASSUME Carries(<< >>, n, s) PROVE n = Len(s)
  BY <1>2 DEF Carries, Numbered
<1> QED  BY <1>1, <1>2

\* The frames after f is sent, if f is no waste.
With(s, f) == IF f.cmd = "Waste" THEN s ELSE Append(s, f)

\* Waste is not one of the frames that were sent, every other frame is.
LEMMA WithFacts ==
  ASSUME NEW s \in Seq(Frames), NEW f \in Frames
  PROVE  /\ With(s, f) \in Seq(Frames) /\ Len(With(s, f)) = Len(s) + Counts(f)
         /\ \A i \in 1 .. Len(s) : With(s, f)[i] = s[i]
         /\ f.cmd # "Waste" => With(s, f)[Len(s) + 1] = f
BY DEF With, Counts

\* write_conn appends whole frames: the frame of a request, or waste at the end of a packet.
LEMMA CarriesMore ==
  ASSUME NEW b \in Seq(Bytes), NEW n \in Nat, NEW s \in Seq(Frames), NEW f \in Frames,
         f.cmd = "Waste" => f.id = 0, Carries(b, n, s)
  PROVE  Carries(b \o Encode(f), n, With(s, f))
<1> DEFINE l == Len(b)
           h == Size(f)
           c == b \o Encode(f)
           t == With(s, f)
           N == Len(s)
           M == Len(t)
<1>1. PICK k : Numbered(b, k, n, s)
  BY DEF Carries
<1> DEFINE q == [p \in 1 .. l + h + 1 |-> IF p <= l THEN k[p] ELSE IF p <= l + h THEN N ELSE M]
<1>2. /\ l \in Nat /\ h \in Nat \ {0} /\ N \in Nat /\ M \in Nat /\ M = N + Counts(f)
      /\ \A i \in 1 .. N : t[i] = s[i]
      /\ f.cmd # "Waste" => t[N + 1] = f
  <2>1. h \in Nat \ {0} /\ l \in Nat /\ N \in Nat
    BY EncodeFacts
  <2>2. Counts(f) \in Nat
    BY DEF Counts
  <2>3. /\ t \in Seq(Frames) /\ M = N + Counts(f) /\ \A i \in 1 .. N : t[i] = s[i]
        /\ f.cmd # "Waste" => t[N + 1] = f
    BY WithFacts
  <2> QED  BY <2>1, <2>2, <2>3
<1>3. /\ c \in Seq(Bytes) /\ Len(c) = l + h
      /\ \A i \in 1 .. l : c[i] = b[i]
      /\ \A j \in 1 .. h : c[l + j] = <<f, j>>
  <2> DEFINE E == Encode(f)
  <2>1. E \in Seq(Bytes) /\ Len(E) = h /\ \A j \in 1 .. h : E[j] = <<f, j>>
    BY EncodeFacts
  <2> HIDE DEF E, h
  <2>2. /\ b \o E \in Seq(Bytes) /\ Len(b \o E) = l + h
        /\ \A i \in 1 .. l + h : (b \o E)[i] = IF i <= l THEN b[i] ELSE E[i - l]
    BY <2>1
  <2>3. ASSUME NEW j \in 1 .. h PROVE (b \o E)[l + j] = <<f, j>>
    <3>1. l + j \in 1 .. l + h /\ ~(l + j <= l) /\ (l + j) - l = j
      BY <1>2
    <3> QED  BY <2>1, <2>2, <3>1
  <2>4. \A i \in 1 .. l : (b \o E)[i] = b[i]
    BY <1>2, <2>2
  <2> QED  BY Zenon, <2>2, <2>3, <2>4 DEF E
<1>4. /\ k \in [1 .. l + 1 -> Nat] /\ k[1] = n /\ k[l + 1] = N
      /\ \A p \in 1 .. l : \E g \in Frames, m \in 0 .. p - 1 :
           p <= m + Size(g) /\ Block(b, k, s, g, m)
  BY <1>1 DEF Numbered
<1>5. /\ q \in [1 .. l + h + 1 -> Nat]
      /\ \A p \in 1 .. l + 1 : q[p] = k[p]
      /\ \A j \in 1 .. h : q[l + j] = N
      /\ q[l + h + 1] = M
  <2> HIDE DEF h, t, N, M, l
  <2>1. q \in [1 .. l + h + 1 -> Nat]
    BY <1>2, <1>4
  <2>2. \A p \in 1 .. l + 1 : q[p] = k[p]
    BY <1>2, <1>4
  <2>3. \A j \in 1 .. h : q[l + j] = N
    BY <1>2
  <2>4. q[l + h + 1] = M
    BY <1>2
  <2> QED  BY Zenon, <2>1, <2>2, <2>3, <2>4
<1> HIDE DEF q, c, t, N, M, l, h
<1>6. Block(c, q, t, f, l)
  <2>1. q[l + 1] = N
    BY <1>2, <1>5
  <2>2. h = Size(f)
    BY DEF h
  <2>3. f.cmd # "Waste" => N < M
    BY <1>2 DEF Counts
  <2>4. l + h <= Len(c) /\ \A j \in 1 .. h : c[l + j] = <<f, j>> /\ q[l + j] = q[l + 1]
    <3>1. l + h <= Len(c)
      <4>1. Len(c) = l + h
        BY <1>3
      <4> QED  BY <1>2, <4>1
    <3> QED  BY <1>3, <1>5, <2>1, <3>1
  <2>5. q[l + h + 1] = q[l + 1] + Counts(f)
    BY <1>2, <1>5, <2>1
  <2>6. IF f.cmd = "Waste" THEN f.id = 0 ELSE q[l + 1] < Len(t) /\ t[q[l + 1] + 1] = f
    BY <1>2, <2>1, <2>3 DEF M
  <2> QED  BY <2>2, <2>4, <2>5, <2>6 DEF Block
<1>7. ASSUME NEW p \in 1 .. l, NEW g \in Frames, NEW m \in 0 .. p - 1, Block(b, k, s, g, m)
      PROVE  Block(c, q, t, g, m)
  <2>1. Size(g) \in Nat \ {0}
    BY EncodeFacts
  <2>2. m \in Nat /\ m + Size(g) <= l
    BY <1>2, <1>7 DEF Block, l
  <2>3. ASSUME NEW j \in 1 .. Size(g) PROVE c[m + j] = <<g, j>> /\ q[m + j] = q[m + 1]
    <3>1. m + j \in 1 .. l /\ m + j \in 1 .. l + 1 /\ m + 1 \in 1 .. l + 1
      <4> DEFINE z == Size(g)
      <4>1. z \in Nat \ {0} /\ j \in 1 .. z /\ m \in Nat /\ m + z <= l /\ l \in Nat
        BY <1>2, <2>1, <2>2
      <4> HIDE DEF z
      <4> QED  BY <4>1
    <3>2. b[m + j] = <<g, j>> /\ k[m + j] = k[m + 1]
      BY <1>7 DEF Block
    <3> QED  BY <1>3, <1>5, <3>1, <3>2
  <2>4. /\ m + 1 \in 1 .. l + 1 /\ m + Size(g) + 1 \in 1 .. l + 1
        /\ m + Size(g) <= Len(c)
    <3>1. l \in Nat /\ h \in Nat /\ Len(c) = l + h
      BY <1>2, <1>3
    <3> QED  BY <2>1, <2>2, <3>1
  <2>5. q[m + 1] = k[m + 1] /\ q[m + Size(g) + 1] = k[m + Size(g) + 1]
    BY <1>5, <2>4
  <2>6. k[m + 1] \in Nat
    BY <1>4, <2>4
  <2>7. k[m + Size(g) + 1] = k[m + 1] + Counts(g)
    BY <1>7 DEF Block
  <2>8. IF g.cmd = "Waste" THEN g.id = 0 ELSE k[m + 1] < Len(t) /\ t[k[m + 1] + 1] = g
    <3>1. IF g.cmd = "Waste" THEN g.id = 0 ELSE k[m + 1] < N /\ s[k[m + 1] + 1] = g
      BY <1>7 DEF Block, N
    <3>2. N <= M /\ M = Len(t)
      BY <1>2 DEF Counts, M
    <3>3. ASSUME k[m + 1] < N PROVE k[m + 1] + 1 \in 1 .. N /\ k[m + 1] < M
      BY <1>2, <2>6, <3>2, <3>3
    <3> QED  BY <1>2, <3>1, <3>2, <3>3
  <2> QED  BY Zenon, <2>3, <2>4, <2>5, <2>7, <2>8 DEF Block
<1>8. ASSUME NEW p \in 1 .. Len(c)
      PROVE  \E g \in Frames, m \in 0 .. p - 1 : p <= m + Size(g) /\ Block(c, q, t, g, m)
  <2>1. CASE p <= l
    <3>1. p \in 1 .. l
      BY <1>2, <1>3, <2>1
    <3> QED  BY <1>4, <1>7, <3>1
  <2>2. CASE p > l
    <3>1. l \in 0 .. p - 1 /\ p <= l + Size(f)
      BY <1>2, <1>3, <2>2 DEF h
    <3> QED  BY <1>6, <3>1
  <2> QED  BY <1>2, <1>3, <2>1, <2>2
<1>9. Numbered(c, q, n, t)
  <2>1. q[1] = n /\ q[Len(c) + 1] = Len(t)
    BY <1>2, <1>3, <1>4, <1>5 DEF M
  <2>2. q \in [1 .. Len(c) + 1 -> Nat]
    BY <1>3, <1>5
  <2> QED  BY <1>8, <2>1, <2>2 DEF Numbered
<1> QED  BY <1>9 DEF Carries, c, t

\* A position after the first h bytes is a position of the whole.
LEMMA Shifted ==
  ASSUME NEW l \in Nat, NEW h \in Nat \ {0}, h <= l, NEW p \in 1 .. l - h + 1
  PROVE  p + h \in 1 .. l + 1
OBVIOUS

\* read_from_or_eof takes a whole frame, the next one that was sent or waste.
LEMMA CarriesLess ==
  ASSUME NEW b \in Seq(Bytes), NEW n \in Nat, NEW s \in Seq(Frames), NEW f, f = b[1][1],
         Len(b) > 0, Carries(b, n, s)
  PROVE  /\ f \in Frames /\ Size(f) \in 1 .. Len(b) /\ (f.cmd = "Waste" => f.id = 0)
         /\ \A j \in 1 .. Size(f) : b[j] = <<f, j>>
         /\ f.cmd # "Waste" => n < Len(s) /\ s[n + 1] = f
         /\ Carries(SubSeq(b, Size(f) + 1, Len(b)), n + Counts(f), s)
<1> DEFINE l == Len(b)
           h == Size(f)
           c == SubSeq(b, h + 1, l)
<1>1. PICK k : Numbered(b, k, n, s)
  BY DEF Carries
<1>2. /\ k \in [1 .. l + 1 -> Nat] /\ k[1] = n /\ k[l + 1] = Len(s)
      /\ \A p \in 1 .. l : \E g \in Frames, m \in 0 .. p - 1 :
           p <= m + Size(g) /\ Block(b, k, s, g, m)
  BY Zenon, <1>1 DEF Numbered
<1>3. f \in Frames /\ Block(b, k, s, f, 0)
  <2>1. 1 \in 1 .. l
    OBVIOUS
  <2>2. PICK g \in Frames, m \in 0 .. 1 - 1 : Block(b, k, s, g, m)
    BY <1>2, <2>1
  <2>3. m = 0
    BY <2>2
  <2>4. 1 \in 1 .. Size(g)
    BY EncodeFacts
  <2>5. b[0 + 1] = <<g, 1>>
    BY <2>2, <2>3, <2>4 DEF Block
  <2>6. g = f
    BY <2>5
  <2> QED  BY <2>2, <2>3, <2>6
<1>4. l \in Nat /\ h \in Nat \ {0}
  BY <1>3, EncodeFacts
<1>5. /\ h <= l /\ \A j \in 1 .. h : b[j] = <<f, j>> /\ k[j] = n
      /\ k[h + 1] = n + Counts(f)
      /\ IF f.cmd = "Waste" THEN f.id = 0 ELSE n < Len(s) /\ s[n + 1] = f
  BY <1>2, <1>3, <1>4 DEF Block
<1>6. /\ Len(c) = l - h /\ \A i \in 1 .. l - h : c[i] = b[i + h]
  <2>1. h \in 0 .. l
    BY <1>4, <1>5
  <2> HIDE DEF h
  <2> QED  BY <2>1
<1> DEFINE q == [p \in 1 .. l - h + 1 |-> k[p + h]]
<1>7. /\ q \in [1 .. l - h + 1 -> Nat] /\ q[1] = n + Counts(f) /\ q[l - h + 1] = Len(s)
      /\ \A p \in 1 .. l - h + 1 : q[p] = k[p + h]
  <2> HIDE DEF h, l
  <2>1. \A p \in 1 .. l - h + 1 : q[p] = k[p + h] /\ p + h \in 1 .. l + 1
    BY Zenon, <1>4, <1>5, Shifted
  <2>2. q \in [1 .. l - h + 1 -> Nat]
    BY Zenon, <1>2, <2>1 DEF l
  <2>3. /\ 1 \in 1 .. l - h + 1 /\ l - h + 1 \in 1 .. l - h + 1
        /\ 1 + h = h + 1 /\ (l - h + 1) + h = l + 1
    BY <1>4, <1>5
  <2>4. q[1] = k[h + 1] /\ q[l - h + 1] = k[l + 1]
    BY <2>1, <2>3
  <2> QED  BY <1>2, <1>5, <2>1, <2>2, <2>4
<1> HIDE DEF q, c, h, l
<1>8. ASSUME NEW g \in Frames, NEW m \in Nat, Block(b, k, s, g, m), m >= h
      PROVE  Block(c, q, s, g, m - h)
  <2>1. Size(g) \in Nat \ {0}
    BY EncodeFacts
  <2>2. m + Size(g) <= l
    BY <1>8 DEF Block, l
  <2>3. ASSUME NEW j \in 1 .. Size(g)
        PROVE  c[(m - h) + j] = <<g, j>> /\ q[(m - h) + j] = q[(m - h) + 1]
    <3>1. /\ (m - h) + j \in 1 .. l - h /\ (m - h) + j \in 1 .. l - h + 1
          /\ (m - h) + 1 \in 1 .. l - h + 1
          /\ ((m - h) + j) + h = m + j /\ ((m - h) + 1) + h = m + 1
      BY <1>4, <1>8, <2>1, <2>2
    <3>2. b[m + j] = <<g, j>> /\ k[m + j] = k[m + 1]
      BY <1>8 DEF Block
    <3> QED  BY Zenon, <1>6, <1>7, <3>1, <3>2
  <2>4. /\ (m - h) + 1 \in 1 .. l - h + 1 /\ ((m - h) + 1) + h = m + 1
        /\ (m - h) + Size(g) + 1 \in 1 .. l - h + 1
        /\ ((m - h) + Size(g) + 1) + h = m + Size(g) + 1
        /\ (m - h) + Size(g) <= Len(c)
    <3>1. m >= h /\ h \in Nat /\ l \in Nat
      BY <1>4, <1>8
    <3> DEFINE z == Size(g)
    <3>2. z \in Nat /\ m + z <= l
      BY <2>1, <2>2
    <3> HIDE DEF z
    <3>3. /\ (m - h) + 1 \in 1 .. l - h + 1 /\ ((m - h) + 1) + h = m + 1
          /\ (m - h) + z + 1 \in 1 .. l - h + 1
          /\ ((m - h) + z + 1) + h = m + z + 1
          /\ (m - h) + z <= l - h
      BY <3>1, <3>2
    <3> QED  BY <1>6, <3>3 DEF z
  <2>5. /\ q[(m - h) + 1] = k[m + 1]
        /\ q[(m - h) + Size(g) + 1] = k[m + Size(g) + 1]
    BY <1>7, <2>4
  <2>6. /\ k[m + Size(g) + 1] = k[m + 1] + Counts(g)
        /\ IF g.cmd = "Waste" THEN g.id = 0 ELSE k[m + 1] < Len(s) /\ s[k[m + 1] + 1] = g
    BY <1>8 DEF Block
  <2> QED  BY <2>3, <2>4, <2>5, <2>6 DEF Block
<1>9. ASSUME NEW p \in 1 .. Len(c)
      PROVE  \E g \in Frames, m \in 0 .. p - 1 : p <= m + Size(g) /\ Block(c, q, s, g, m)
  <2>1. p \in 1 .. l - h /\ p + h \in 1 .. l
    BY <1>4, <1>6
  <2>2. PICK g \in Frames, m \in 0 .. (p + h) - 1 : p + h <= m + Size(g) /\ Block(b, k, s, g, m)
    BY <1>2, <2>1
  <2>3. Size(g) \in Nat \ {0}
    BY EncodeFacts
  <2>4. m >= h
    <3> SUFFICES ASSUME m < h PROVE FALSE
      BY <1>4
    <3>1. 1 \in 1 .. Size(g) /\ m + 1 \in 1 .. h
      BY <1>4, <2>3
    <3>2. b[m + 1] = <<g, 1>>
      BY <2>2, <3>1 DEF Block
    <3>3. b[m + 1] = <<f, m + 1>>
      BY <1>5, <3>1
    <3>4. g = f /\ m + 1 = 1
      BY <3>2, <3>3
    <3> QED  BY <1>4, <2>1, <2>2, <3>4 DEF h
  <2>5. m - h \in 0 .. p - 1 /\ p <= (m - h) + Size(g) /\ m \in Nat
    BY <1>4, <2>1, <2>2, <2>3, <2>4
  <2>6. Block(c, q, s, g, m - h)
    BY <1>8, <2>2, <2>4, <2>5
  <2> QED  BY <2>5, <2>6
<1>10. Numbered(c, q, n + Counts(f), s)
  BY <1>6, <1>7, <1>9 DEF Numbered
<1>11. Carries(c, n + Counts(f), s)
  BY <1>10 DEF Carries
<1>12. h \in 1 .. Len(b)
  BY <1>4, <1>5 DEF l
<1> QED  BY <1>3, <1>5, <1>11, <1>12 DEF c, h, l

-----------------------------------------------------------------------------
(* Sequences.                                                              *)

\* A sequence that is cut is joined again.
LEMMA CutJoin ==
  ASSUME NEW s \in Seq(Bytes), NEW t \in Seq(Bytes), NEW n \in 0 .. Len(t)
  PROVE  /\ SubSeq(t, 1, n) \in Seq(Bytes) /\ SubSeq(t, n + 1, Len(t)) \in Seq(Bytes)
         /\ (s \o SubSeq(t, 1, n)) \o SubSeq(t, n + 1, Len(t)) = s \o t
<1> DEFINE u == SubSeq(t, 1, n)
           v == SubSeq(t, n + 1, Len(t))
           j == u \o v
<1>1. u \in Seq(Bytes) /\ Len(u) = n /\ \A i \in 1 .. n : u[i] = t[i]
  OBVIOUS
<1>2. v \in Seq(Bytes) /\ Len(v) = Len(t) - n /\ \A i \in 1 .. Len(t) - n : v[i] = t[n + i]
  OBVIOUS
<1> HIDE DEF u, v
<1>3. /\ j \in Seq(Bytes) /\ Len(j) = Len(u) + Len(v)
      /\ \A i \in 1 .. Len(u) + Len(v) : j[i] = IF i <= Len(u) THEN u[i] ELSE v[i - Len(u)]
  BY Zenon, <1>1, <1>2, ConcatProperties
<1>4. (s \o u) \o v = s \o j
  <2>1. Regroups(s, u, v)
    BY Zenon, <1>1, <1>2, ConcatAssociative
  <2> QED  BY Zenon, <2>1 DEF Regroups
<1> HIDE DEF j
<1>5. Len(j) = Len(t)
  BY <1>1, <1>2, <1>3
<1>6. ASSUME NEW i \in 1 .. Len(j) PROVE j[i] = t[i]
  <2>1. /\ i \in 1 .. Len(u) + Len(v) /\ (i <= Len(u) => i \in 1 .. n)
        /\ ~(i <= Len(u)) => i - Len(u) \in 1 .. Len(t) - n /\ n + (i - Len(u)) = i
    BY <1>1, <1>2, <1>3
  <2> QED  BY <1>1, <1>2, <1>3, <2>1
<1>7. j = t
  BY Zenon, <1>3, <1>5, <1>6, SeqEqual
<1> QED  BY Zenon, <1>1, <1>2, <1>4, <1>7 DEF u, v

\* What is taken off the front of a joined sequence.
LEMMA CutFront ==
  ASSUME NEW s \in Seq(Bytes), NEW t \in Seq(Bytes), NEW n \in 0 .. Len(s)
  PROVE  SubSeq(s \o t, n + 1, Len(s \o t)) = SubSeq(s, n + 1, Len(s)) \o t
<1> DEFINE u == s \o t
           c == SubSeq(s, n + 1, Len(s))
           d == SubSeq(u, n + 1, Len(u))
<1>1. /\ u \in Seq(Bytes) /\ Len(u) = Len(s) + Len(t)
      /\ \A i \in 1 .. Len(s) + Len(t) : u[i] = IF i <= Len(s) THEN s[i] ELSE t[i - Len(s)]
  BY Zenon, ConcatProperties
<1> HIDE DEF u
<1>2. /\ c \in Seq(Bytes) /\ Len(c) = Len(s) - n
      /\ \A i \in 1 .. Len(s) - n : c[i] = s[n + i]
  OBVIOUS
<1>3. /\ d \in Seq(Bytes) /\ Len(d) = (Len(s) + Len(t)) - n
      /\ \A i \in 1 .. (Len(s) + Len(t)) - n : d[i] = u[n + i]
  BY <1>1
<1> HIDE DEF c, d
<1> DEFINE j == c \o t
<1>4. /\ j \in Seq(Bytes) /\ Len(j) = Len(c) + Len(t)
      /\ \A i \in 1 .. Len(c) + Len(t) : j[i] = IF i <= Len(c) THEN c[i] ELSE t[i - Len(c)]
  BY Zenon, <1>2, ConcatProperties
<1> HIDE DEF j
<1>5. ASSUME NEW i \in 1 .. Len(d) PROVE d[i] = j[i]
  <2>1. /\ i \in 1 .. (Len(s) + Len(t)) - n /\ i \in 1 .. Len(c) + Len(t)
        /\ n + i \in 1 .. Len(s) + Len(t)
        /\ n + i <= Len(s) <=> i <= Len(c)
        /\ (n + i) - Len(s) = i - Len(c)
        /\ i <= Len(c) => i \in 1 .. Len(s) - n
    BY <1>2, <1>3
  <2>2. d[i] = IF i <= Len(c) THEN s[n + i] ELSE t[i - Len(c)]
    BY Zenon, <1>1, <1>3, <2>1
  <2>3. i <= Len(c) => c[i] = s[n + i]
    BY <1>2, <2>1
  <2> QED  BY Zenon, <1>4, <2>1, <2>2, <2>3
<1>6. Len(d) = Len(j)
  BY <1>2, <1>3, <1>4
<1>7. d = j
  BY Zenon, <1>3, <1>4, <1>5, <1>6, SeqEqual
<1> QED  BY Zenon, <1>7 DEF c, d, u, j

-----------------------------------------------------------------------------
(* The writer.                                                             *)

\* A line of a scheme lists entries.
LEMMA RangesFacts ==
  ASSUME NEW s \in Sides, NEW n
  PROVE  RecordRanges(Scheme[s], n) \in Seq(Entry) /\ Scheme[s].stop \in Nat
BY PaddingAssumption DEF RecordRanges

\* A size is a mark, or what a waste frame can have.
LEMMA SizeFacts ==
  ASSUME NEW e \in Entry, NEW size \in ParseRange(e), size # CheckMark
  PROVE  size \in 1 .. MaxLen
<1>1. MaxLen \in Nat
  BY PaddingAssumption
<1>2. e # << >>
  BY DEF ParseRange
<1>3. PICK lo \in Int, hi \in Int : e = <<lo, hi>> /\ lo <= MaxLen /\ hi <= MaxLen
  BY <1>2 DEF Entry
<1>4. CASE lo <= hi
  BY <1>1, <1>2, <1>3, <1>4 DEF ParseRange
<1>5. CASE ~(lo <= hi)
  BY <1>1, <1>2, <1>3, <1>5 DEF ParseRange
<1> QED  BY <1>4, <1>5

\* write_conn holds its bytes back or makes a packet of all it has.
LEMMA WriteConnFacts ==
  ASSUME NEW w \in PadWriter, PadsInTime(w), NEW b \in Seq(Bytes), NEW s \in Sides
  PROVE  LET v == WriteConn(w, b, Scheme[s])
         IN  /\ v \in PadWriter /\ PadsInTime(v) /\ v.at = w.at /\ v.buffering = w.buffering
             /\ w.buffering => /\ v.buffered = w.buffered \o b
                               /\ v.rest = w.rest /\ v.ranges = w.ranges
             /\ ~w.buffering => v.buffered = << >> /\ v.rest = w.buffered \o b
<1> DEFINE all == w.buffered \o b
           n == w.count + 1
           u == [w EXCEPT !.buffered = << >>, !.rest = all]
           v == WriteConn(w, b, Scheme[s])
<1>1. /\ all \in Seq(Bytes) /\ << >> \in Seq(Bytes) /\ n \in Nat /\ n > 0
      /\ RecordRanges(Scheme[s], n) \in Seq(Entry) /\ Scheme[s].stop \in Nat
  <2>1. w.buffered \in Seq(Bytes) /\ w.count \in Nat
    BY DEF PadWriter
  <2>2. all \in Seq(Bytes) /\ << >> \in Seq(Bytes)
    BY <2>1
  <2>3. n \in Nat /\ n > 0
    BY <2>1
  <2>4. RecordRanges(Scheme[s], n) \in Seq(Entry) /\ Scheme[s].stop \in Nat
    BY Zenon, RangesFacts
  <2> QED  BY <2>2, <2>3, <2>4
<1>2. CASE w.buffering
  <2>1. v = [w EXCEPT !.buffered = all]
    BY <1>2 DEF WriteConn
  <2> HIDE DEF v, all
  <2>2. v \in PadWriter /\ PadsInTime(v)
    BY Zenon, <1>1, <2>1 DEF PadWriter, PadsInTime
  <2> QED  BY Zenon, <1>2, <2>1, <2>2 DEF PadWriter, v, all
<1>3. CASE ~w.buffering /\ ~w.pad
  <2>1. v = u
    BY <1>3 DEF WriteConn
  <2> HIDE DEF v, all
  <2>2. v \in PadWriter /\ PadsInTime(v)
    BY Zenon, <1>1, <1>3, <2>1 DEF PadWriter, PadsInTime
  <2> QED  BY <1>3, <2>1, <2>2 DEF PadWriter, v, all
<1>4. CASE ~w.buffering /\ w.pad /\ n >= Scheme[s].stop
  <2>1. v = [u EXCEPT !.count = n, !.pad = FALSE]
    BY <1>4 DEF WriteConn
  <2> HIDE DEF v, all
  <2>2. v \in PadWriter /\ PadsInTime(v)
    BY Zenon, <1>1, <2>1 DEF PadWriter, PadsInTime
  <2> QED  BY <1>4, <2>1, <2>2 DEF PadWriter, v, all
<1>5. CASE ~w.buffering /\ w.pad /\ ~(n >= Scheme[s].stop)
  <2>1. v = [u EXCEPT !.count = n, !.ranges = RecordRanges(Scheme[s], n)]
    BY <1>5 DEF WriteConn
  <2> HIDE DEF v, all
  <2>2. v \in PadWriter
    BY Zenon, <1>1, <2>1 DEF PadWriter
  <2>3. v.count = n
    BY <2>1 DEF PadWriter
  <2>4. v.count < Scheme[s].stop
    BY <1>1, <1>5, <2>3
  <2>5. PadsInTime(v)
    BY <2>4 DEF PadsInTime
  <2> QED  BY <1>5, <2>1, <2>2, <2>5 DEF PadWriter, v, all
<1> QED  BY Zenon, <1>2, <1>3, <1>4, <1>5

\* The writer with the request f of queue q.
Serving(w, f, s, q) ==
  LET v == Serve(w, f, s) IN [v EXCEPT !.at = IF v.buffering THEN "idle" ELSE q]

\* background_task adds the frame of a request to what it holds, whatever it held back before.
LEMMA ServeFacts ==
  ASSUME NEW w \in PadWriter, PadsInTime(w), WriterOK(w), w.at = "idle",
         NEW f \in Frames, NEW s \in Sides, NEW q \in {"ctl", "data"}
  PROVE  LET v == Serving(w, f, Scheme[s], q)
         IN  /\ v \in PadWriter /\ PadsInTime(v) /\ WriterOK(v)
             /\ ~w.buffering => ~v.buffering
             /\ v.rest \o v.buffered = (w.rest \o w.buffered) \o Encode(f)
<1> DEFINE E == Encode(f)
           a == WriteConn(w, E, Scheme[s])
           b == [a EXCEPT !.buffering = FALSE]
           c == WriteConn(b, << >>, Scheme[s])
           d == Serve(w, f, Scheme[s])
           v == Serving(w, f, Scheme[s], q)
<1>1. E \in Seq(Bytes) /\ E # << >> /\ << >> \in Seq(Bytes)
  <2>1. E \in Seq(Bytes) /\ Len(E) > 0
    BY EncodeFacts
  <2> HIDE DEF E
  <2> QED  BY <2>1
<1> HIDE DEF E
<1>2. /\ a \in PadWriter /\ PadsInTime(a) /\ a.at = w.at /\ a.buffering = w.buffering
      /\ w.buffering => a.buffered = w.buffered \o E /\ a.rest = w.rest /\ a.ranges = w.ranges
      /\ ~w.buffering => a.buffered = << >> /\ a.rest = w.buffered \o E
  BY <1>1, WriteConnFacts
<1>3. w.buffered \in Seq(Bytes) /\ w.rest = << >> /\ w.ranges = << >> /\ w.buffering \in BOOLEAN
  BY DEF WriterOK, PadWriter
<1>4. /\ w.buffered \o E \in Seq(Bytes) /\ w.buffered \o E # << >>
      /\ (w.rest \o w.buffered) \o E = w.buffered \o E
      /\ << >> \o (w.buffered \o E) = w.buffered \o E
      /\ (w.buffered \o E) \o << >> = w.buffered \o E
  BY <1>1, <1>3, ConcatProperties, ConcatEmptySeq, EmptySeq
<1>5. /\ b \in PadWriter /\ PadsInTime(b) /\ b.at = a.at /\ ~b.buffering
      /\ b.buffered = a.buffered /\ b.rest = a.rest /\ b.ranges = a.ranges
  <2> HIDE DEF a
  <2> QED  BY Zenon, <1>2 DEF PadWriter, PadsInTime
<1>6. /\ c \in PadWriter /\ PadsInTime(c) /\ c.at = b.at /\ ~c.buffering
      /\ c.buffered = << >> /\ c.rest = b.buffered \o << >>
  <2> HIDE DEF b
  <2>1. LET u == WriteConn(b, << >>, Scheme[s])
        IN  /\ u \in PadWriter /\ PadsInTime(u) /\ u.at = b.at /\ u.buffering = b.buffering
            /\ ~b.buffering => u.buffered = << >> /\ u.rest = b.buffered \o << >>
    BY Zenon, <1>1, <1>5, WriteConnFacts
  <2> QED  BY <1>5, <2>1
<1>7. d = IF f.cmd # "Syn" THEN a ELSE IF b.buffered = << >> THEN b ELSE c
  BY DEF Serve, E
<1>8. v = [d EXCEPT !.at = IF d.buffering THEN "idle" ELSE q]
  BY DEF Serving
<1> HIDE DEF a, b, c, d, v
<1>9. /\ d \in PadWriter /\ PadsInTime(d) /\ (~w.buffering => ~d.buffering) /\ d.at = "idle"
      /\ d.buffering => d.buffered = w.buffered \o E /\ d.rest = << >> /\ d.ranges = << >>
      /\ ~d.buffering => d.buffered = << >> /\ d.rest = w.buffered \o E
  <2>1. CASE f.cmd # "Syn"
    BY <1>2, <1>3, <1>7, <2>1
  <2>2. CASE f.cmd = "Syn" /\ w.buffering
    <3>1. b.buffered = w.buffered \o E /\ b.buffered # << >>
      BY <1>2, <1>4, <1>5, <2>2
    <3>2. d = c
      BY <1>7, <2>2, <3>1
    <3> QED  BY Zenon, <1>2, <1>4, <1>5, <1>6, <3>1, <3>2
  <2>3. CASE f.cmd = "Syn" /\ ~w.buffering
    <3>1. d = b
      BY <1>2, <1>5, <1>7, <2>3
    <3> QED  BY <1>2, <1>5, <2>3, <3>1
  <2> QED  BY <1>3, <2>1, <2>2, <2>3
<1>10. /\ v \in PadWriter /\ PadsInTime(v) /\ v.buffering = d.buffering
       /\ v.buffered = d.buffered /\ v.rest = d.rest /\ v.ranges = d.ranges
       /\ v.at = IF d.buffering THEN "idle" ELSE q
  BY Zenon, <1>8, <1>9 DEF PadWriter, PadsInTime
<1>11. WriterOK(v)
  BY <1>9, <1>10 DEF WriterOK
<1>12. v.rest \o v.buffered = w.buffered \o E
  <2>1. d.buffering \in BOOLEAN
    BY <1>9 DEF PadWriter
  <2> QED  BY Zenon, <1>4, <1>9, <1>10, <2>1
<1> QED  BY <1>4, <1>9, <1>10, <1>11, <1>12 DEF v, E

-----------------------------------------------------------------------------
(* The steps.                                                              *)

\* What the types say of one end.
LEMMA EndFacts ==
  ASSUME PlTypeOK, NEW x \in Sides
  PROVE  /\ end[x] \in Ends /\ end[x].w \in PadWriter /\ PadsInTime(end[x].w)
         /\ tls[x] \in Seq(Bytes) /\ sent[x] \in Seq(Frames) /\ got[x] \in Seq(Frames)
         /\ end[x].w.rest \in Seq(Bytes) /\ end[x].w.buffered \in Seq(Bytes)
<1>1. /\ end[x] \in Ends /\ PadsInTime(end[x].w)
      /\ tls[x] \in Seq(Bytes) /\ sent[x] \in Seq(Frames) /\ got[x] \in Seq(Frames)
  BY DEF PlTypeOK
<1>2. end[x].w \in PadWriter
  BY <1>1 DEF Ends
<1>3. end[x].w.rest \in Seq(Bytes) /\ end[x].w.buffered \in Seq(Bytes)
  BY <1>2 DEF PadWriter
<1> QED  BY <1>1, <1>2, <1>3

\* The bytes under way to a side are bytes.
LEMMA WayFacts ==
  ASSUME PlTypeOK, NEW x \in Sides
  PROVE  Way(x) \in Seq(Bytes)
<1>1. Peer(x) \in Sides
  BY PeerFacts
<1> QED  BY <1>1, EndFacts, ConcatProperties DEF Way

\* What may be concluded from a frame can be concluded later: stream ids stay positive and
\* the client keeps the server's scheme.
LEMMA SendsGrow ==
  ASSUME nextId > 0 => nextId' > 0, scheme["client"] = "server" => scheme'["client"] = "server",
         NEW x \in Sides
  PROVE  Sends(x) \subseteq Sends(x)'
BY DEF Sends

\* What a side sends are frames.
LEMMA SendsFrames ==
  ASSUME NEW x \in Sides, NEW q \in Seq(Sends(x))
  PROVE  q \in Seq(Frames)
<1>1. Sends(x) \subseteq Frames
  BY DEF Sends
<1> QED  BY <1>1, SeqMonotonic

\* A direction in which nothing moves.
LEMMA CarriedSame ==
  ASSUME NEW x \in Sides, CarriedOK(x), Way(x)' = Way(x), got'[x] = got[x],
         sent'[Peer(x)] = sent[Peer(x)]
  PROVE  CarriedOK(x)'
BY DEF CarriedOK

\* Steps that leave the writers and the transport alone.
LEMMA CalmStep ==
  ASSUME PlInv, UNCHANGED <<tls, sent, got>>,
         \A y \in Sides : end'[y].w = end[y].w /\ end'[y].up = end[y].up
  PROVE  /\ NeverRefused'
         /\ \A x \in Sides : WriterOK(end[x].w)' /\ CarriedOK(x)'
<1>1. NeverRefused'
  BY DEF PlInv, NeverRefused
<1>2. ASSUME NEW x \in Sides PROVE WriterOK(end[x].w)'
  BY DEF PlInv, WriterOK
<1>3. ASSUME NEW x \in Sides PROVE CarriedOK(x)'
  <2>1. Peer(x) \in Sides /\ CarriedOK(x)
    BY Zenon, PeerFacts DEF PlInv
  <2>2. Way(x)' = Way(x)
    BY Zenon, <2>1 DEF Way
  <2> QED  BY <2>1, <2>2, CarriedSame
<1> QED  BY <1>1, <1>2, <1>3

\* An end is replaced by another of its type.
LEMMA EndReplaced ==
  ASSUME PlTypeOK, NEW x \in Sides, NEW e \in Ends, end' = [end EXCEPT ![x] = e]
  PROVE  end' \in [Sides -> Ends] /\ end'[x] = e /\ \A y \in Sides : y # x => end'[y] = end[y]
BY DEF PlTypeOK

\* Queues get longer.
LEMMA QueueFacts ==
  ASSUME NEW e \in Ends, NEW f \in Frames
  PROVE  LET d == Queue(e, <<f>>)
         IN  /\ d \in Ends /\ d.w = e.w /\ d.up = e.up /\ d.data = e.data /\ d.syn = e.syn
             /\ d.settings = e.settings /\ d.version = e.version /\ d.pushes = e.pushes
             /\ d.ctl = e.ctl \o <<f>>
<1>1. e.ctl \in Seq(Frames) /\ <<f>> \in Seq(Frames)
  BY DEF Ends
<1>2. e.ctl \o <<f>> \in Seq(Frames)
  BY <1>1
<1> QED  BY Zenon, <1>2 DEF Queue, Ends

\* What the client has said and means to say next rests on its queues and its frames alone.
LEMMA ClientSame ==
  ASSUME ClientOK, sent'["client"] = sent["client"], opening' = opening, nextId' = nextId,
         end'["client"].ctl = end["client"].ctl, end'["client"].data = end["client"].data
  PROVE  ClientOK'
BY Zenon DEF ClientOK

\* What the server has answered rests on its end, its frames and the client's version and scheme.
LEMMA ServerSame ==
  ASSUME ServerOK, ~end'["server"].w.buffering, end'["server"].ctl = end["server"].ctl,
         end'["server"].settings = end["server"].settings, end'["server"].syn = end["server"].syn,
         end'["server"].version = end["server"].version,
         end'["client"].version = end["client"].version,
         sent'["server"] = sent["server"], got' = got, scheme'["client"] = scheme["client"],
         nextId > 0 => nextId' > 0
  PROVE  ServerOK'
BY Zenon DEF ServerOK, Answered

\* The server's writer does not hold its bytes back (Session::new_server).
LEMMA ServerPlain ==
  ASSUME PlInv
  PROVE  ServerOK /\ ClientOK /\ ~end["server"].w.buffering
BY Zenon DEF PlInv, ServerOK

\* A frame that is still to come has a place among those sent.
LEMMA PlaceAfter ==
  ASSUME NEW n \in Nat, NEW m \in Nat, n < m
  PROVE  n + 1 \in 1 .. m /\ n + 1 <= m
OBVIOUS

\* The Settings are the client's first frame, and name the scheme of this moment.
LEMMA RunInv ==
  ASSUME PlInv, Run
  PROVE  PlInv'
<1> DEFINE f == Frame("Settings", 0, 1, scheme["client"])
           e == end["client"]
           d == Queue(e, <<f>>)
<1>1. /\ opening = "new" /\ opening' = "run" /\ end' = [end EXCEPT !["client"] = d]
      /\ UNCHANGED <<tls, scheme, nextId, sent, got>>
  BY DEF Run
<1>2. PlTypeOK /\ "client" \in Sides /\ "server" \in Sides /\ e \in Ends
  BY EndFacts DEF PlInv, Sides
<1>3. f \in Frames /\ f \in Sends("client") /\ f.cmd = "Settings"
  <2>1. scheme["client"] \in Sides
    BY <1>2 DEF PlTypeOK
  <2> QED  BY <2>1, PaddingAssumption DEF Frame, Frames, Sends, ValidStreamId, AllowsData
<1>4. e.ctl = << >> /\ sent["client"] = << >>
  BY Zenon, <1>1 DEF PlInv, ClientOK
<1>5. /\ d \in Ends /\ d.w = e.w /\ d.up = e.up /\ d.data = e.data /\ d.syn = e.syn
      /\ d.settings = e.settings /\ d.version = e.version /\ d.ctl = e.ctl \o <<f>>
  BY Zenon, <1>2, <1>3, QueueFacts
<1>6. d.ctl = <<f>>
  BY <1>4, <1>5
<1> HIDE DEF d, f
<1>7. /\ end' \in [Sides -> Ends] /\ end'["client"] = d /\ end'["server"] = end["server"]
      /\ \A y \in Sides : end'[y].w = end[y].w /\ end'[y].up = end[y].up
  BY Zenon, <1>1, <1>2, <1>5, EndReplaced
<1>8. PlTypeOK'
  BY <1>1, <1>2, <1>7 DEF PlTypeOK, PadsInTime
<1>9. NeverRefused' /\ \A x \in Sides : WriterOK(end[x].w)' /\ CarriedOK(x)'
  BY <1>1, <1>7, CalmStep
<1>10. ASSUME NEW x \in Sides PROVE FramesOK(x)'
  <2>1. Sends(x)' = Sends(x) /\ FramesOK(x)
    BY <1>1 DEF Sends, PlInv
  <2>2. CASE x = "client"
    BY <1>1, <1>3, <1>5, <1>6, <1>7, <2>1, <2>2 DEF FramesOK
  <2>3. CASE x = "server"
    BY <1>1, <1>7, <2>1, <2>3 DEF FramesOK
  <2> QED  BY <2>2, <2>3 DEF Sides
<1>11. ClientOK'
  <2>1. d.data = << >> /\ d.ctl # << >> /\ \A i \in 1 .. Len(d.ctl) : d.ctl[i].cmd = "Settings"
    BY <1>3, <1>4, <1>5, <1>6 DEF PlInv, ClientOK
  <2> QED  BY <1>1, <1>4, <1>7, <2>1 DEF ClientOK
<1>12. ServerOK'
  BY Zenon, <1>1, <1>5, <1>7, ServerPlain, ServerSame
<1> QED  BY <1>8, <1>9, <1>10, <1>11, <1>12 DEF PlInv

\* The SYN comes after the Settings, and its id is not zero.
LEMMA OpenStreamInv ==
  ASSUME PlInv, OpenStream
  PROVE  PlInv'
<1> DEFINE f == Frame("Syn", nextId', 0, "none")
           e == end["client"]
           d == Queue(e, <<f>>)
<1>1. /\ opening = "run" /\ opening' = "syn" /\ end' = [end EXCEPT !["client"] = d]
      /\ nextId' = AllocateStreamId(nextId) /\ e.ctl = << >>
      /\ UNCHANGED <<tls, scheme, sent, got>>
  BY DEF OpenStream, Written
<1>2. PlTypeOK /\ "client" \in Sides /\ "server" \in Sides /\ e \in Ends
  BY EndFacts DEF PlInv, Sides
<1>3. nextId' \in 1 .. MaxId
  BY <1>1, <1>2, PaddingAssumption DEF PlTypeOK, AllocateStreamId
<1>4. f \in Frames /\ f \in Sends("client")'
  BY <1>3, PaddingAssumption DEF Frame, Frames, Sends, ValidStreamId, AllowsData
<1>5. sent["client"] # << >>
  BY <1>1 DEF PlInv, ClientOK
<1>6. /\ d \in Ends /\ d.w = e.w /\ d.up = e.up /\ d.data = e.data /\ d.syn = e.syn
      /\ d.settings = e.settings /\ d.version = e.version /\ d.ctl = e.ctl \o <<f>>
  BY Zenon, <1>2, <1>4, QueueFacts
<1>7. d.ctl = <<f>>
  BY <1>1, <1>6
<1> HIDE DEF d, f
<1>8. /\ end' \in [Sides -> Ends] /\ end'["client"] = d /\ end'["server"] = end["server"]
      /\ \A y \in Sides : end'[y].w = end[y].w /\ end'[y].up = end[y].up
  BY Zenon, <1>1, <1>2, <1>6, EndReplaced
<1>9. PlTypeOK'
  <2>1. \A y \in Sides : PadsInTime(end'[y].w)
    BY <1>2, <1>8, EndFacts
  <2>2. nextId' \in 0 .. MaxId
    BY <1>3
  <2>3. /\ tls' \in [Sides -> Seq(Bytes)] /\ scheme' \in [Sides -> Sides]
        /\ opening' \in {"new", "run", "syn", "open"}
        /\ sent' \in [Sides -> Seq(Frames)] /\ got' \in [Sides -> Seq(Frames)]
    BY <1>1, <1>2 DEF PlTypeOK
  <2> QED  BY <1>8, <2>1, <2>2, <2>3 DEF PlTypeOK, PadsInTime
<1>10. NeverRefused' /\ \A x \in Sides : WriterOK(end[x].w)' /\ CarriedOK(x)'
  BY <1>1, <1>8, CalmStep
<1>11. ASSUME NEW x \in Sides PROVE FramesOK(x)'
  <2>1. /\ end[x].ctl \in Seq(Sends(x)') /\ end[x].data \in Seq(Sends(x)')
        /\ sent[x] \in Seq(Sends(x)')
    <3>1. Sends(x) \subseteq Sends(x)' /\ FramesOK(x)
      BY <1>1, <1>3, SendsGrow DEF PlInv
    <3> QED  BY <3>1, SeqMonotonic DEF FramesOK
  <2>2. CASE x = "client"
    <3>1. f \in Sends(x)'
      BY <1>4, <2>2
    <3>2. <<f>> \in Seq(Sends(x)')
      BY <3>1
    <3>3. end'[x].ctl = <<f>> /\ end'[x].data = end[x].data /\ sent'[x] = sent[x]
      BY <1>1, <1>6, <1>7, <1>8, <2>2
    <3> QED  BY <2>1, <3>2, <3>3 DEF FramesOK
  <2>3. CASE x = "server"
    BY Zenon, <1>1, <1>8, <2>1, <2>3 DEF FramesOK
  <2> QED  BY <2>2, <2>3 DEF Sides
<1>12. ClientOK'
  BY <1>1, <1>3, <1>5, <1>6, <1>8 DEF PlInv, ClientOK
<1>13. ServerOK'
  <2>1. nextId' > 0
    BY <1>3
  <2> QED  BY Zenon, <1>1, <1>6, <1>8, <2>1, ServerPlain, ServerSame
<1> QED  BY <1>9, <1>10, <1>11, <1>12, <1>13 DEF PlInv

\* The stream is open when its SYN is written.
LEMMA OpenedInv ==
  ASSUME PlInv, Opened
  PROVE  PlInv'
<1>1. /\ opening = "syn" /\ opening' = "open" /\ UNCHANGED <<end, tls, scheme, nextId, sent, got>>
  BY DEF Opened
<1>2. NeverRefused' /\ \A x \in Sides : WriterOK(end[x].w)' /\ CarriedOK(x)'
  BY Zenon, <1>1, CalmStep
<1>3. PlTypeOK'
  BY <1>1 DEF PlInv, PlTypeOK, PadsInTime
<1>4. \A x \in Sides : FramesOK(x)'
  BY Zenon, <1>1 DEF PlInv, FramesOK, Sends
<1>5. ClientOK' /\ ServerOK'
  BY Zenon, <1>1, ServerPlain, ServerSame DEF ClientOK
<1> QED  BY <1>2, <1>3, <1>4, <1>5 DEF PlInv

\* Another session can only bring the server's scheme.
LEMMA OtherUpdateInv ==
  ASSUME PlInv, OtherUpdate
  PROVE  PlInv'
<1>1. /\ scheme' = [scheme EXCEPT !["client"] = "server"]
      /\ UNCHANGED <<end, tls, opening, nextId, sent, got>>
  BY DEF OtherUpdate
<1>2. NeverRefused' /\ \A x \in Sides : WriterOK(end[x].w)' /\ CarriedOK(x)'
  BY <1>1, CalmStep
<1>3. PlTypeOK' /\ scheme'["client"] = "server"
  BY <1>1 DEF PlInv, PlTypeOK, PadsInTime, Sides
<1>4. ASSUME NEW x \in Sides PROVE FramesOK(x)'
  <2>1. Sends(x) \subseteq Sends(x)' /\ FramesOK(x)
    BY Zenon, <1>1, <1>3, SendsGrow DEF PlInv
  <2> QED  BY <1>1, <2>1, SeqMonotonic DEF FramesOK
<1>5. ClientOK' /\ ServerOK'
  BY Zenon, <1>1, <1>3 DEF PlInv, ClientOK, ServerOK, Answered
<1> QED  BY <1>2, <1>3, <1>4, <1>5 DEF PlInv

\* Data is sent on a stream that has an id, after the Settings.
LEMMA PushInv ==
  ASSUME PlInv, NEW x \in Sides, Push(x)
  PROVE  PlInv'
<1>1. PICK n \in 0 .. MaxPush :
        end' = [end EXCEPT ![x].data = <<Frame("Push", nextId, n, "none")>>, ![x].pushes = @ + 1]
  BY Zenon DEF Push
<1> DEFINE f == Frame("Push", nextId, n, "none")
           e == end[x]
           d == [e EXCEPT !.data = <<f>>, !.pushes = @ + 1]
<1>2. /\ IF x = "client" THEN opening = "open" ELSE e.syn
      /\ e.pushes < Pushes /\ UNCHANGED <<tls, scheme, opening, nextId, sent, got>>
      /\ end' = [end EXCEPT ![x] = d]
  BY Zenon, <1>1 DEF Push
<1>3. PlTypeOK /\ e \in Ends /\ nextId \in 0 .. MaxId /\ nextId > 0
  <2>1. PlTypeOK /\ e \in Ends /\ nextId \in 0 .. MaxId
    BY EndFacts DEF PlInv, PlTypeOK
  <2>2. nextId > 0
    BY <1>2 DEF PlInv, ClientOK, ServerOK, Sides
  <2> QED  BY <2>1, <2>2
<1>4. f \in Frames /\ f \in Sends(x)
  <2>1. n \in 0 .. MaxLen /\ nextId # 0
    BY <1>3, PaddingAssumption
  <2>2. f \in Frames /\ f.cmd = "Push" /\ f.id = nextId
    BY <1>3, <2>1 DEF Frame, Frames
  <2> HIDE DEF f
  <2> QED  BY Zenon, <1>3, <2>1, <2>2 DEF Sends, ValidStreamId, AllowsData
<1>5. /\ d \in Ends /\ d.w = e.w /\ d.up = e.up /\ d.ctl = e.ctl /\ d.data = <<f>> /\ d.syn = e.syn
      /\ d.settings = e.settings /\ d.version = e.version
  <2>1. <<f>> \in Seq(Frames) /\ e.pushes + 1 \in 0 .. Pushes
    <3>1. <<f>> \in Seq(Frames)
      BY <1>4
    <3>2. e.pushes \in 0 .. Pushes /\ Pushes \in Nat
      BY <1>3, PaddingAssumption DEF Ends
    <3>3. e.pushes + 1 \in 0 .. Pushes
      BY <1>2, <3>2
    <3> QED  BY <3>1, <3>3
  <2> HIDE DEF f
  <2> QED  BY Zenon, <1>3, <2>1 DEF Ends
<1> HIDE DEF d, f
<1>6. /\ end' \in [Sides -> Ends] /\ end'[x] = d /\ \A y \in Sides : y # x => end'[y] = end[y]
      /\ \A y \in Sides : /\ end'[y].w = end[y].w /\ end'[y].up = end[y].up
                          /\ end'[y].ctl = end[y].ctl /\ end'[y].syn = end[y].syn
                          /\ end'[y].settings = end[y].settings /\ end'[y].version = end[y].version
  BY Zenon, <1>2, <1>3, <1>5, EndReplaced
<1>7. PlTypeOK'
  BY <1>2, <1>3, <1>6 DEF PlTypeOK, PadsInTime
<1>8. NeverRefused' /\ \A y \in Sides : WriterOK(end[y].w)' /\ CarriedOK(y)'
  BY <1>2, <1>6, CalmStep
<1>9. ASSUME NEW y \in Sides PROVE FramesOK(y)'
  <2>1. Sends(y)' = Sends(y) /\ FramesOK(y)
    BY <1>2 DEF Sends, PlInv
  <2>2. end'[y].data \in Seq(Sends(y))
    <3>1. <<f>> \in Seq(Sends(x))
      BY <1>4
    <3>2. y # x => end'[y].data = end[y].data
      BY <1>6
    <3>3. y = x => end'[y].data = <<f>>
      BY <1>5, <1>6
    <3>4. end[y].data \in Seq(Sends(y))
      BY <2>1 DEF FramesOK
    <3> QED  BY Zenon, <3>1, <3>2, <3>3, <3>4
  <2> QED  BY <1>2, <1>6, <2>1, <2>2 DEF FramesOK
<1>10. ClientOK'
  <2>1. x = "client" => sent["client"] # << >>
    BY <1>2 DEF PlInv, ClientOK
  <2>2. x # "client" => end'["client"] = end["client"]
    BY <1>6 DEF Sides
  <2>3. "client" \in Sides
    BY Zenon DEF Sides
  <2> QED  BY <1>2, <1>6, <2>1, <2>2, <2>3 DEF PlInv, ClientOK
<1>11. ServerOK'
  <2>1. "server" \in Sides /\ "client" \in Sides
    BY Zenon DEF Sides
  <2> QED  BY Zenon, <1>2, <1>6, <2>1, ServerPlain, ServerSame
<1> QED  BY <1>7, <1>8, <1>9, <1>10, <1>11 DEF PlInv

\* A frame that is taken from a queue and recorded as sent is not lost.
LEMMA HasMoved ==
  ASSUME NEW q \in Seq(Frames), q # << >>, NEW s \in Seq(Frames), NEW c
  PROVE  /\ Has(s, c) => Has(Append(s, Head(q)), c)
         /\ Has(q, c) => Has(Tail(q), c) \/ Has(Append(s, Head(q)), c)
<1> DEFINE t == Append(s, Head(q))
<1>1. /\ Len(t) = Len(s) + 1 /\ t[Len(s) + 1] = Head(q) /\ \A i \in 1 .. Len(s) : t[i] = s[i]
      /\ Len(s) \in Nat
  OBVIOUS
<1>2. /\ Len(Tail(q)) = Len(q) - 1 /\ Head(q) = q[1] /\ Len(q) \in Nat
      /\ \A i \in 1 .. Len(q) - 1 : Tail(q)[i] = q[i + 1]
  OBVIOUS
<1> HIDE DEF t
<1>3. ASSUME NEW i \in 1 .. Len(s), s[i].cmd = c PROVE Has(t, c)
  BY <1>1, <1>3 DEF Has
<1>4. ASSUME NEW i \in 1 .. Len(q), q[i].cmd = c PROVE Has(Tail(q), c) \/ Has(t, c)
  <2>1. CASE i = 1
    <3>1. Len(s) + 1 \in 1 .. Len(t) /\ t[Len(s) + 1].cmd = c
      BY <1>1, <1>2, <1>4, <2>1
    <3> QED  BY <3>1 DEF Has
  <2>2. CASE i # 1
    <3>1. i - 1 \in 1 .. Len(q) - 1 /\ (i - 1) + 1 = i
      BY <1>2, <2>2
    <3>2. Tail(q)[i - 1].cmd = c /\ i - 1 \in 1 .. Len(Tail(q))
      BY <1>2, <1>4, <3>1
    <3> QED  BY Zenon, <3>2 DEF Has
  <2> QED  BY <2>1, <2>2
<1> QED  BY <1>3, <1>4 DEF Has, t

\* The writer takes a request: its frame is now under way to the peer.
LEMMA TakeInv ==
  ASSUME PlInv, NEW x \in Sides, Take(x)
  PROVE  PlInv'
<1> DEFINE z == Peer(x)
           e == end[x]
           q == IF e.ctl # << >> THEN "ctl" ELSE "data"
           f == Head(e[q])
           v == Serving(e.w, f, Scheme[scheme[x]], q)
           d == [e EXCEPT ![q] = Tail(@), !.w = v]
<1>1. /\ e.up /\ e.w.at = "idle" /\ e[q] # << >> /\ end' = [end EXCEPT ![x] = d]
      /\ sent' = [sent EXCEPT ![x] = Append(@, f)]
      /\ UNCHANGED <<tls, scheme, opening, nextId, got>>
  BY DEF Take, Serving
<1>2. /\ PlTypeOK /\ e \in Ends /\ e.w \in PadWriter /\ PadsInTime(e.w) /\ WriterOK(e.w)
      /\ z \in Sides /\ z # x /\ Peer(z) = x /\ scheme[x] \in Sides
      /\ sent[x] \in Seq(Frames) /\ q \in {"ctl", "data"}
  BY EndFacts, PeerFacts DEF PlInv, PlTypeOK
<1>3. e.ctl \in Seq(Sends(x)) /\ e.data \in Seq(Sends(x)) /\ sent[x] \in Seq(Sends(x))
  BY DEF PlInv, FramesOK
<1>4. /\ f \in Sends(x) /\ f \in Frames /\ f.cmd # "Waste" /\ Tail(e[q]) \in Seq(Sends(x))
      /\ Tail(e[q]) \in Seq(Frames)
  <2>1. e[q] \in Seq(Sends(x))
    BY <1>3
  <2>2. f \in Sends(x) /\ Tail(e[q]) \in Seq(Sends(x))
    BY <1>1, <2>1, HeadTailProperties
  <2> HIDE DEF f, q
  <2>3. f \in Frames /\ f.cmd # "Waste"
    BY <2>2 DEF Sends
  <2> QED  BY <2>2, <2>3, SendsFrames
<1> HIDE DEF f
<1>5. /\ v \in PadWriter /\ PadsInTime(v) /\ WriterOK(v) /\ (~e.w.buffering => ~v.buffering)
      /\ v.rest \o v.buffered = (e.w.rest \o e.w.buffered) \o Encode(f)
  <2> HIDE DEF q
  <2> QED  BY <1>1, <1>2, <1>4, ServeFacts
<1> HIDE DEF v
<1>6. /\ d \in Ends /\ d.w = v /\ d.up = e.up /\ d.syn = e.syn /\ d.settings = e.settings
      /\ d.version = e.version
      /\ e.ctl # << >> => f = Head(e.ctl) /\ d.ctl = Tail(e.ctl) /\ d.data = e.data
      /\ e.ctl = << >> => f = Head(e.data) /\ d.ctl = << >> /\ d.data = Tail(e.data) /\ e.data # << >>
      /\ d.ctl \in Seq(Sends(x)) /\ d.data \in Seq(Sends(x))
  <2>1. CASE e.ctl # << >>
    <3>1. q = "ctl" /\ d = [e EXCEPT !.ctl = Tail(@), !.w = v]
      BY <2>1
    <3> HIDE DEF d, q
    <3> QED  BY Zenon, <1>2, <1>3, <1>4, <1>5, <2>1, <3>1 DEF Ends, f
  <2>2. CASE e.ctl = << >>
    <3>1. q = "data" /\ d = [e EXCEPT !.data = Tail(@), !.w = v]
      BY <2>2
    <3> HIDE DEF d, q
    <3> QED  BY Zenon, <1>1, <1>2, <1>3, <1>4, <1>5, <2>2, <3>1 DEF Ends, f
  <2> QED  BY <2>1, <2>2
<1> HIDE DEF d, q
<1>7. /\ end' \in [Sides -> Ends] /\ end'[x] = d /\ end'[z] = end[z]
      /\ sent' \in [Sides -> Seq(Frames)] /\ sent'[x] = Append(sent[x], f) /\ sent'[z] = sent[z]
  <2>1. end' \in [Sides -> Ends] /\ end'[x] = d /\ end'[z] = end[z]
    BY Zenon, <1>1, <1>2, <1>6, EndReplaced
  <2>2. Append(sent[x], f) \in Seq(Frames) /\ sent \in [Sides -> Seq(Frames)]
    BY <1>2, <1>4 DEF PlTypeOK
  <2>3. sent' = [sent EXCEPT ![x] = Append(sent[x], f)]
    BY <1>1
  <2> HIDE DEF z
  <2> QED  BY <1>2, <2>1, <2>2, <2>3
<1>8. \A y \in Sides : y = x \/ y = z
  BY DEF Sides, Peer
<1>9. PlTypeOK' /\ NeverRefused'
  BY Zenon, <1>1, <1>2, <1>5, <1>6, <1>7, <1>8 DEF PlInv, PlTypeOK, NeverRefused
<1>10. CarriedOK(z)'
  <2>1. CarriedOK(z) /\ Way(z) \in Seq(Bytes) /\ Encode(f) \in Seq(Bytes) /\ tls[z] \in Seq(Bytes)
    BY Zenon, <1>2, <1>4, WayFacts, EncodeFacts, EndFacts DEF PlInv
  <2>2. e.w.rest \o e.w.buffered \in Seq(Bytes)
    BY Zenon, <1>2, EndFacts, ConcatProperties
  <2>3. Way(z) = tls[z] \o (e.w.rest \o e.w.buffered)
    BY Zenon, <1>2 DEF Way
  <2>4. Way(z)' = tls[z] \o (v.rest \o v.buffered)
    BY Zenon, <1>1, <1>2, <1>6, <1>7 DEF Way
  <2>5. Way(z)' = Way(z) \o Encode(f)
    <3> DEFINE t == tls[z]
               o == e.w.rest \o e.w.buffered
               g == Encode(f)
    <3>1. t \in Seq(Bytes) /\ o \in Seq(Bytes) /\ g \in Seq(Bytes)
      BY Zenon, <2>1, <2>2
    <3>2. Way(z)' = t \o (o \o g)
      BY Zenon, <1>5, <2>4
    <3> HIDE DEF t, o, g
    <3>3. Regroups(t, o, g)
      BY Zenon, <3>1, ConcatAssociative
    <3> QED  BY Zenon, <2>3, <3>2, <3>3 DEF Regroups, t, o, g
  <2>6. With(sent[x], f) = Append(sent[x], f)
    BY <1>4 DEF With
  <2>7. got[z] \in Seq(Frames) /\ Len(got[z]) \in Nat
    BY <1>2, EndFacts
  <2>8. Carries(Way(z), Len(got[z]), sent[x])
    BY Zenon, <1>2, <2>1 DEF CarriedOK
  <2>9. Carries(Way(z)', Len(got[z]), Append(sent[x], f))
    BY Zenon, <1>2, <1>4, <2>1, <2>5, <2>6, <2>7, <2>8, CarriesMore
  <2>10. /\ Len(got[z]) <= Len(Append(sent[x], f))
         /\ \A i \in 1 .. Len(got[z]) : got[z][i] = Append(sent[x], f)[i]
    <3> DEFINE a == Append(sent[x], f)
               l == Len(got[z])
    <3>1. l <= Len(sent[x]) /\ (\A i \in 1 .. l : got[z][i] = sent[x][i]) /\ l \in Nat
      BY Zenon, <1>2, <2>1, <2>7 DEF CarriedOK
    <3>2. Len(a) = Len(sent[x]) + 1 /\ (\A i \in 1 .. Len(sent[x]) : a[i] = sent[x][i])
          /\ Len(sent[x]) \in Nat
      BY <1>2, <1>4
    <3> HIDE DEF a, l
    <3>3. ASSUME NEW i \in 1 .. l PROVE got[z][i] = a[i]
      <4>1. i \in 1 .. Len(sent[x])
        BY <3>1, <3>2
      <4> QED  BY <3>1, <3>2, <4>1
    <3>4. l <= Len(a)
      BY <3>1, <3>2
    <3> QED  BY <3>3, <3>4 DEF a, l
  <2> QED  BY Zenon, <1>1, <1>2, <1>7, <2>9, <2>10 DEF CarriedOK
<1>11. CarriedOK(x)'
  <2>1. CarriedOK(x)
    BY Zenon DEF PlInv
  <2>2. Way(x)' = Way(x)
    BY Zenon, <1>1, <1>7 DEF Way
  <2> QED  BY <1>1, <1>7, <2>1, <2>2, CarriedSame
<1>12. \A y \in Sides : WriterOK(end[y].w)'
  BY Zenon, <1>5, <1>6, <1>7, <1>8 DEF PlInv
<1>13. \A y \in Sides : FramesOK(y)'
  <2>1. Sends(x)' = Sends(x) /\ Sends(z)' = Sends(z) /\ FramesOK(z)
    BY <1>1, <1>2 DEF Sends, PlInv
  <2>2. sent'[x] \in Seq(Sends(x))
    <3>1. sent[x] \in Seq(Sends(x)) /\ f \in Sends(x)
      BY <1>3, <1>4
    <3>2. Append(sent[x], f) \in Seq(Sends(x))
      BY <3>1
    <3> QED  BY Zenon, <1>7, <3>2
  <2> QED  BY Zenon, <1>6, <1>7, <1>8, <2>1, <2>2 DEF FramesOK
<1>14. ClientOK'
  <2>1. CASE x = "client"
    <3>1. sent'[x] # << >> /\ sent'[x][1] = IF sent[x] = << >> THEN f ELSE sent[x][1]
      <4> DEFINE s == sent[x]
                 t == Append(s, f)
      <4>1. s \in Seq(Frames) /\ f \in Frames /\ sent'[x] = t
        BY Zenon, <1>2, <1>4, <1>7
      <4> HIDE DEF s
      <4>2. t # << >> /\ t[1] = IF s = << >> THEN f ELSE s[1]
        <5>1. /\ Len(t) = Len(s) + 1 /\ t[Len(s) + 1] = f /\ Len(s) \in Nat
              /\ \A i \in 1 .. Len(s) : t[i] = s[i]
          BY <4>1
        <5>2. s = << >> => Len(s) = 0
          OBVIOUS
        <5>3. s # << >> => 1 \in 1 .. Len(s)
          BY <4>1
        <5>4. t # << >>
          BY <5>1
        <5> QED  BY <5>1, <5>2, <5>3, <5>4
      <4> QED  BY Zenon, <4>1, <4>2 DEF s
    <3>2. ASSUME sent[x] = << >> PROVE f.cmd = "Settings"
      <4>1. /\ \A i \in 1 .. Len(e.ctl) : e.ctl[i].cmd = "Settings"
            /\ e.data = << >>
        BY Zenon, <2>1, <3>2 DEF PlInv, ClientOK
      <4>2. e.ctl # << >> /\ f = Head(e.ctl)
        BY Zenon, <1>6, <4>1
      <4>3. e.ctl \in Seq(Frames)
        BY <1>2 DEF Ends
      <4> QED  BY <4>1, <4>2, <4>3
    <3>3. opening # "new"
      BY Zenon, <1>3, <1>6, <2>1 DEF PlInv, ClientOK
    <3> QED  BY <1>1, <1>7, <2>1, <3>1, <3>2, <3>3 DEF PlInv, ClientOK
  <2>2. CASE x = "server"
    <3>1. z = "client"
      BY <2>2 DEF Peer
    <3> QED  BY Zenon, <1>1, <1>7, <3>1, ServerPlain, ClientSame
  <2> QED  BY Zenon, <2>1, <2>2 DEF Sides
<1>15. ServerOK'
  <2>1. CASE x = "server"
    <3>1. z = "client" /\ end'["client"] = end["client"]
      BY <1>7, <2>1 DEF Peer
    <3>2. ASSUME NEW c, Answered(c) PROVE Answered(c)'
      <4>1. e.ctl \in Seq(Frames) /\ e.data \in Seq(Frames)
        BY Zenon, <1>2 DEF Ends
      <4>2. CASE e.ctl # << >>
        <5>1. /\ Has(sent[x], c) => Has(Append(sent[x], Head(e.ctl)), c)
              /\ Has(e.ctl, c) => Has(Tail(e.ctl), c) \/ Has(Append(sent[x], Head(e.ctl)), c)
          BY Zenon, <1>2, <4>1, <4>2, HasMoved
        <5>2. end'[x].ctl = Tail(e.ctl) /\ sent'[x] = Append(sent[x], Head(e.ctl))
          BY Zenon, <1>6, <1>7, <4>2
        <5> QED  BY Zenon, <2>1, <3>2, <5>1, <5>2 DEF Answered
      <4>3. CASE e.ctl = << >>
        <5>1. ~Has(e.ctl, c)
          BY <4>3 DEF Has
        <5>2. Has(sent[x], c)
          BY <2>1, <3>2, <5>1 DEF Answered
        <5>3. Has(sent'[x], c)
          <6>1. e.data # << >> /\ sent'[x] = Append(sent[x], Head(e.data))
            BY Zenon, <1>6, <1>7, <4>3
          <6>2. Has(Append(sent[x], Head(e.data)), c)
            BY Zenon, <1>2, <4>1, <5>2, <6>1, HasMoved
          <6> QED  BY Zenon, <6>1, <6>2
        <5> QED  BY <2>1, <5>3 DEF Answered
      <4> QED  BY Zenon, <4>2, <4>3
    <3> QED  BY Zenon, <1>1, <1>5, <1>6, <1>7, <2>1, <3>1, <3>2 DEF PlInv, ServerOK
  <2>2. CASE x = "client"
    <3>1. z = "server" /\ end'["server"] = end["server"] /\ sent'["server"] = sent["server"]
      BY Zenon, <1>7, <2>2 DEF Peer
    <3> QED  BY Zenon, <1>1, <1>6, <1>7, <2>2, <3>1, ServerPlain, ServerSame
  <2> QED  BY Zenon, <2>1, <2>2 DEF Sides
<1> QED  BY <1>8, <1>9, <1>10, <1>11, <1>12, <1>13, <1>14, <1>15 DEF PlInv

\* A busy writer moves bytes to the transport, and may add waste behind them.
LEMMA WroteInv ==
  ASSUME PlInv, NEW x \in Sides, NEW v \in PadWriter, NEW o \in Seq(Bytes), Wrote(x, v, o),
         PadsInTime(v), WriterOK(v), ~end[x].w.buffering => ~v.buffering,
         Carries((tls[Peer(x)] \o o) \o (v.rest \o v.buffered), Len(got[Peer(x)]), sent[x])
  PROVE  PlInv'
<1> DEFINE z == Peer(x)
           e == end[x]
           d == [e EXCEPT !.w = v]
<1>1. /\ end' = [end EXCEPT ![x] = d] /\ tls' = [tls EXCEPT ![z] = @ \o o]
      /\ UNCHANGED <<scheme, opening, nextId, sent, got>>
  BY Zenon DEF Wrote
<1>2. /\ PlTypeOK /\ e \in Ends /\ z \in Sides /\ z # x /\ Peer(z) = x /\ tls[z] \in Seq(Bytes)
  BY Zenon, EndFacts, PeerFacts DEF PlInv
<1>3. /\ d \in Ends /\ d.w = v /\ d.up = e.up /\ d.ctl = e.ctl /\ d.data = e.data /\ d.syn = e.syn
      /\ d.settings = e.settings /\ d.version = e.version
  BY Zenon, <1>2 DEF Ends
<1> HIDE DEF d
<1>4. /\ end' \in [Sides -> Ends] /\ end'[x] = d /\ end'[z] = end[z]
      /\ tls' \in [Sides -> Seq(Bytes)] /\ tls'[z] = tls[z] \o o /\ tls'[x] = tls[x]
  <2>1. end' \in [Sides -> Ends] /\ end'[x] = d /\ end'[z] = end[z]
    BY Zenon, <1>1, <1>2, <1>3, EndReplaced
  <2>2. tls[z] \o o \in Seq(Bytes) /\ tls \in [Sides -> Seq(Bytes)]
    BY Zenon, <1>2, ConcatProperties DEF PlTypeOK
  <2> QED  BY Zenon, <1>1, <1>2, <2>1, <2>2
<1>5. /\ \A y \in Sides : y = x \/ y = z
      /\ \A y \in Sides : /\ end'[y].up = end[y].up /\ end'[y].ctl = end[y].ctl
                          /\ end'[y].data = end[y].data /\ end'[y].syn = end[y].syn
                          /\ end'[y].settings = end[y].settings /\ end'[y].version = end[y].version
                          /\ ~end[y].w.buffering => ~end'[y].w.buffering
  BY Zenon, <1>3, <1>4 DEF Sides, Peer
<1>6. PlTypeOK' /\ NeverRefused'
  <2>1. \A y \in Sides : PadsInTime(end'[y].w)
    BY Zenon, <1>2, <1>3, <1>4, <1>5, EndFacts
  <2>2. \A y \in Sides : end'[y].up
    BY Zenon, <1>5 DEF PlInv, NeverRefused
  <2>3. /\ scheme' \in [Sides -> Sides] /\ opening' \in {"new", "run", "syn", "open"}
        /\ nextId' \in 0 .. MaxId
        /\ sent' \in [Sides -> Seq(Frames)] /\ got' \in [Sides -> Seq(Frames)]
    BY Zenon, <1>1, <1>2 DEF PlTypeOK
  <2> QED  BY Zenon, <1>4, <2>1, <2>2, <2>3 DEF PlTypeOK, NeverRefused, PadsInTime
<1>7. \A y \in Sides : WriterOK(end[y].w)'
  BY Zenon, <1>3, <1>4, <1>5 DEF PlInv
<1>8. CarriedOK(x)'
  <2>1. CarriedOK(x) /\ Way(x)' = Way(x)
    BY Zenon, <1>4 DEF PlInv, Way
  <2> QED  BY Zenon, <1>1, <2>1, CarriedSame
<1>9. CarriedOK(z)'
  <2>1. CarriedOK(z)
    BY Zenon, <1>2 DEF PlInv
  <2>2. Way(z)' = (tls[z] \o o) \o (v.rest \o v.buffered)
    BY Zenon, <1>2, <1>3, <1>4 DEF Way
  <2> QED  BY Zenon, <1>1, <1>2, <2>1, <2>2 DEF CarriedOK
<1>10. ASSUME NEW y \in Sides PROVE FramesOK(y)'
  <2>1. FramesOK(y) /\ Sends(y)' = Sends(y)
    BY Zenon, <1>1 DEF PlInv, Sends
  <2>2. end'[y].ctl = end[y].ctl /\ end'[y].data = end[y].data /\ sent'[y] = sent[y]
    BY Zenon, <1>1, <1>5
  <2> QED  BY Zenon, <2>1, <2>2 DEF FramesOK
<1>11. ClientOK' /\ ServerOK'
  <2>1. "server" \in Sides /\ "client" \in Sides
    BY Zenon DEF Sides
  <2>2. ClientOK'
    BY Zenon, <1>1, <1>5, <2>1, ServerPlain, ClientSame
  <2>3. ServerOK'
    BY Zenon, <1>1, <1>5, <2>1, ServerPlain, ServerSame
  <2> QED  BY <2>2, <2>3
<1> QED  BY <1>5, <1>6, <1>7, <1>8, <1>9, <1>10, <1>11 DEF PlInv

\* What a busy writer has to do with the bytes under way.
LEMMA BusyFacts ==
  ASSUME PlInv, NEW x \in Sides, end[x].w.at # "idle"
  PROVE  /\ PlTypeOK /\ end[x].w \in PadWriter /\ PadsInTime(end[x].w) /\ WriterOK(end[x].w)
         /\ Peer(x) \in Sides /\ end[x].w.rest \in Seq(Bytes) /\ tls[Peer(x)] \in Seq(Bytes)
         /\ ~end[x].w.buffering /\ end[x].w.buffered = << >>
         /\ got[Peer(x)] \in Seq(Frames) /\ sent[x] \in Seq(Frames)
         /\ Carries(tls[Peer(x)] \o end[x].w.rest, Len(got[Peer(x)]), sent[x])
<1>1. /\ PlTypeOK /\ WriterOK(end[x].w) /\ Peer(x) \in Sides /\ Peer(Peer(x)) = x
  BY Zenon, PeerFacts DEF PlInv
<1>2. /\ end[x].w \in PadWriter /\ PadsInTime(end[x].w) /\ end[x].w.rest \in Seq(Bytes)
      /\ tls[Peer(x)] \in Seq(Bytes) /\ got[Peer(x)] \in Seq(Frames) /\ sent[x] \in Seq(Frames)
  BY Zenon, <1>1, EndFacts
<1>3. ~end[x].w.buffering /\ end[x].w.buffered = << >>
  BY Zenon, <1>1 DEF WriterOK
<1>4. Way(Peer(x)) = tls[Peer(x)] \o end[x].w.rest
  BY Zenon, <1>1, <1>2, <1>3, ConcatEmptySeq DEF Way
<1>5. Carries(Way(Peer(x)), Len(got[Peer(x)]), sent[x])
  BY <1>1 DEF PlInv, CarriedOK
<1> QED  BY Zenon, <1>1, <1>2, <1>3, <1>4, <1>5

\* A record is cut off the packet, or ends it and is filled up with whole waste frames.
LEMMA RecordFacts ==
  ASSUME NEW t \in Seq(Bytes), NEW rest \in Seq(Bytes), NEW size \in 1 .. MaxLen,
         NEW n \in Nat, NEW s \in Seq(Frames), Carries(t \o rest, n, s)
  PROVE  /\ Record(rest, size).rest \in Seq(Bytes) /\ Record(rest, size).out \in Seq(Bytes)
         /\ Carries((t \o Record(rest, size).out) \o Record(rest, size).rest, n, s)
<1> DEFINE r == Record(rest, size)
           fill == IF rest = << >> THEN size ELSE size - (Len(rest) + Header)
<1>1. CASE Len(rest) > size
  <2>1. r = [rest |-> SubSeq(rest, size + 1, Len(rest)), out |-> SubSeq(rest, 1, size)]
    BY <1>1 DEF Record
  <2>2. size \in 0 .. Len(rest)
    BY <1>1
  <2>3. /\ SubSeq(rest, 1, size) \in Seq(Bytes) /\ SubSeq(rest, size + 1, Len(rest)) \in Seq(Bytes)
        /\ (t \o SubSeq(rest, 1, size)) \o SubSeq(rest, size + 1, Len(rest)) = t \o rest
    BY Zenon, <2>2, CutJoin
  <2>4. r.rest = SubSeq(rest, size + 1, Len(rest)) /\ r.out = SubSeq(rest, 1, size)
    BY <2>1
  <2> QED  BY Zenon, <2>3, <2>4
<1>2. CASE ~(Len(rest) > size)
  <2>1. r = [rest |-> << >>, out |-> rest \o (IF fill > 0 THEN Waste(fill) ELSE << >>)]
    BY <1>2 DEF Record
  <2>2. t \o rest \in Seq(Bytes) /\ << >> \in Seq(Bytes)
    BY ConcatProperties, EmptySeq
  <2>3. CASE fill > 0
    <3>1. fill \in 0 .. MaxLen
      BY <2>3, PaddingAssumption
    <3> DEFINE f == Frame("Waste", 0, fill, "none")
    <3>2. f \in Frames /\ Waste(fill) = Encode(f) /\ f.cmd = "Waste" /\ f.id = 0
      <4> HIDE DEF fill
      <4> QED  BY Zenon, <3>1, WasteIsFrame DEF Frame
    <3> HIDE DEF f, fill, r
    <3>3. Encode(f) \in Seq(Bytes) /\ With(s, f) = s
      BY <3>2, EncodeFacts DEF With
    <3>4. Carries((t \o rest) \o Encode(f), n, s)
      BY Zenon, <2>2, <3>2, <3>3, CarriesMore
    <3>5. r.rest = << >> /\ r.out = rest \o Encode(f)
      BY <2>1, <2>3, <3>2
    <3>6. /\ rest \o Encode(f) \in Seq(Bytes) /\ t \o (rest \o Encode(f)) \in Seq(Bytes)
          /\ (t \o rest) \o Encode(f) = t \o (rest \o Encode(f))
      <4>1. rest \o Encode(f) \in Seq(Bytes)
        BY Zenon, <3>3, ConcatProperties
      <4>2. t \o (rest \o Encode(f)) \in Seq(Bytes)
        BY Zenon, <4>1, ConcatProperties
      <4>3. (t \o rest) \o Encode(f) = t \o (rest \o Encode(f))
        <5>1. Regroups(t, rest, Encode(f))
          BY Zenon, <3>3, ConcatAssociative
        <5> QED  BY Zenon, <5>1 DEF Regroups
      <4> QED  BY <4>1, <4>2, <4>3
    <3>7. (t \o (rest \o Encode(f))) \o << >> = t \o (rest \o Encode(f))
      BY Zenon, <3>6, ConcatEmptySeq
    <3> QED  BY Zenon, <2>2, <3>4, <3>5, <3>6, <3>7 DEF r
  <2>4. CASE ~(fill > 0)
    <3> HIDE DEF fill, r
    <3>1. r.rest = << >> /\ r.out = rest
      BY <2>1, <2>4, ConcatEmptySeq
    <3> QED  BY <2>2, <3>1, ConcatEmptySeq DEF r
  <2> QED  BY <2>3, <2>4
<1> QED  BY <1>1, <1>2

\* One round of write_conn's loop.
LEMMA WriteRecordInv ==
  ASSUME PlInv, NEW x \in Sides, WriteRecord(x)
  PROVE  PlInv'
<1> DEFINE w == end[x].w
           v == [w EXCEPT !.ranges = Tail(@)]
           z == Peer(x)
<1>1. w.at # "idle" /\ w.ranges # << >>
  BY Zenon DEF WriteRecord
<1>2. /\ w \in PadWriter /\ PadsInTime(w) /\ WriterOK(w) /\ ~w.buffering /\ w.buffered = << >>
      /\ w.rest \in Seq(Bytes) /\ tls[z] \in Seq(Bytes)
      /\ got[z] \in Seq(Frames) /\ sent[x] \in Seq(Frames)
      /\ Carries(tls[z] \o w.rest, Len(got[z]), sent[x])
  BY Zenon, <1>1, BusyFacts
<1>3. w.ranges \in Seq(Entry) /\ Head(w.ranges) \in Entry /\ Tail(w.ranges) \in Seq(Entry)
  BY Zenon, <1>1, <1>2, HeadTailProperties DEF PadWriter
<1>4. << >> \in Seq(Bytes) /\ << >> \in Seq(Entry) /\ tls[z] \o << >> = tls[z]
  BY Zenon, <1>2, EmptySeq, ConcatEmptySeq
<1>5. ASSUME NEW u \in PadWriter, PadsInTime(u), u.at = w.at, ~u.buffering, u.buffered = << >>,
             u.rest \in Seq(Bytes), NEW o \in Seq(Bytes), Wrote(x, u, o),
             Carries((tls[z] \o o) \o u.rest, Len(got[z]), sent[x])
      PROVE  PlInv'
  <2>1. WriterOK(u)
    BY <1>1, <1>5 DEF WriterOK
  <2>2. u.rest \o u.buffered = u.rest
    BY <1>5, ConcatEmptySeq
  <2> HIDE DEF w
  <2> QED  BY Zenon, <1>5, <2>1, <2>2, WroteInv
<1>6. /\ v \in PadWriter /\ PadsInTime(v) /\ v.at = w.at /\ ~v.buffering /\ v.buffered = << >>
      /\ v.rest = w.rest
  <2> HIDE DEF w
  <2> QED  BY Zenon, <1>2, <1>3 DEF PadWriter, PadsInTime
<1>7. CASE Wrote(x, v, << >>)
  <2> HIDE DEF v, w
  <2> QED  BY Zenon, <1>2, <1>4, <1>5, <1>6, <1>7
<1>8. CASE Wrote(x, [w EXCEPT !.ranges = << >>], << >>)
  <2> DEFINE u == [w EXCEPT !.ranges = << >>]
  <2>1. /\ u \in PadWriter /\ PadsInTime(u) /\ u.at = w.at /\ ~u.buffering /\ u.buffered = << >>
        /\ u.rest = w.rest
    <3> HIDE DEF w
    <3> QED  BY Zenon, <1>2, <1>4 DEF PadWriter, PadsInTime
  <2>2. Wrote(x, u, << >>)
    BY <1>8
  <2> HIDE DEF u, w
  <2> QED  BY Zenon, <1>2, <1>4, <1>5, <2>1, <2>2
<1>9. ASSUME NEW size \in ParseRange(Head(w.ranges)), size # CheckMark,
             Wrote(x, [v EXCEPT !.rest = Record(w.rest, size).rest], Record(w.rest, size).out)
      PROVE  PlInv'
  <2> DEFINE r == Record(w.rest, size)
             u == [v EXCEPT !.rest = r.rest]
  <2>1. size \in 1 .. MaxLen
    BY <1>3, <1>9, SizeFacts
  <2>2. Len(got[z]) \in Nat
    <3>1. got[z] \in Seq(Frames)
      BY <1>2
    <3> QED  BY <3>1
  <2>3. /\ r.rest \in Seq(Bytes) /\ r.out \in Seq(Bytes)
        /\ Carries((tls[z] \o r.out) \o r.rest, Len(got[z]), sent[x])
    <3> HIDE DEF w
    <3> QED  BY <1>2, <2>1, <2>2, RecordFacts
  <2>4. Wrote(x, u, r.out)
    BY <1>9
  <2> HIDE DEF r, v
  <2>5. /\ u \in PadWriter /\ PadsInTime(u) /\ u.at = w.at /\ ~u.buffering /\ u.buffered = << >>
        /\ u.rest = r.rest
    BY Zenon, <1>6, <2>3 DEF PadWriter, PadsInTime
  <2> HIDE DEF u, w
  <2> QED  BY <1>5, <2>3, <2>4, <2>5
<1> QED  BY Zenon, <1>7, <1>8, <1>9 DEF WriteRecord

\* The end of write_conn: what is left goes out.
LEMMA WriteRestInv ==
  ASSUME PlInv, NEW x \in Sides, WriteRest(x)
  PROVE  PlInv'
<1> DEFINE w == end[x].w
           u == [w EXCEPT !.at = "idle", !.rest = << >>]
           z == Peer(x)
<1>1. w.at # "idle" /\ w.ranges = << >> /\ Wrote(x, u, w.rest)
  BY DEF WriteRest
<1>2. /\ w \in PadWriter /\ PadsInTime(w) /\ ~w.buffering /\ w.buffered = << >>
      /\ w.rest \in Seq(Bytes) /\ tls[z] \in Seq(Bytes)
      /\ Carries(tls[z] \o w.rest, Len(got[z]), sent[x])
  BY <1>1, BusyFacts
<1>3. << >> \in Seq(Bytes) /\ << >> \o << >> = << >>
      /\ (tls[z] \o w.rest) \o << >> = tls[z] \o w.rest
  <2> DEFINE t == tls[z] \o w.rest
  <2>1. t \in Seq(Bytes)
    BY <1>2
  <2> HIDE DEF t
  <2>2. << >> \in Seq(Bytes) /\ << >> \o << >> = << >> /\ t \o << >> = t
    BY <2>1
  <2> QED  BY <2>2 DEF t
<1>4. /\ u \in PadWriter /\ PadsInTime(u) /\ WriterOK(u) /\ ~u.buffering
      /\ u.rest = << >> /\ u.buffered = << >>
  <2> HIDE DEF w
  <2> QED  BY Zenon, <1>1, <1>2, <1>3 DEF PadWriter, PadsInTime, WriterOK
<1> HIDE DEF u
<1> QED  BY Zenon, <1>1, <1>2, <1>3, <1>4, WroteInv

\* There is nothing below the length of the empty sequence.
LEMMA NoneBelowNone ==
  ASSUME NEW n \in Nat, NEW q, n < Len(q)
  PROVE  q # << >>
OBVIOUS

\* The frames an end has read are counted.
LEMMA CountFacts ==
  ASSUME NEW q \in Seq(Frames)
  PROVE  Len(q) \in Nat
OBVIOUS

\* A frame is appended.
LEMMA AppendFacts ==
  ASSUME NEW q \in Seq(Frames), NEW f \in Frames
  PROVE  /\ Append(q, f) \in Seq(Frames) /\ Len(q) \in Nat
         /\ Len(Append(q, f)) = Len(q) + 1 /\ Append(q, f)[Len(q) + 1] = f
         /\ \A i \in 1 .. Len(q) : Append(q, f)[i] = q[i]
OBVIOUS

\* What side x has read of frame f.
LEMMA GotFacts ==
  ASSUME PlTypeOK, NEW x \in Sides, NEW f \in Frames,
         got' = IF f.cmd = "Waste" THEN got ELSE [got EXCEPT ![x] = Append(@, f)]
  PROVE  /\ got' \in [Sides -> Seq(Frames)] /\ \A y \in Sides : y # x => got'[y] = got[y]
         /\ got'[x] = IF f.cmd = "Waste" THEN got[x] ELSE Append(got[x], f)
<1> DEFINE t == Append(got[x], f)
<1>1. got \in [Sides -> Seq(Frames)]
  BY DEF PlTypeOK
<1>2. t \in Seq(Frames)
  BY <1>1, AppendFacts
<1>3. got' = IF f.cmd = "Waste" THEN got ELSE [got EXCEPT ![x] = t]
  OBVIOUS
<1> HIDE DEF t
<1> QED  BY Zenon, <1>1, <1>2, <1>3 DEF t

\* What is read is a whole frame: waste, or the next that was sent.
LEMMA ReceiveFrame ==
  ASSUME PlInv, NEW x \in Sides, Receive(x), NEW f, f = tls[x][1][1]
  PROVE  /\ f \in Frames /\ end' = [end EXCEPT ![x] = OnFrame(x, f)]
         /\ got' = IF f.cmd = "Waste" THEN got ELSE [got EXCEPT ![x] = Append(@, f)]
         /\ scheme' = IF f.cmd = "Update" /\ x = "client" THEN [scheme EXCEPT ![x] = f.scheme]
                      ELSE scheme
         /\ tls' \in [Sides -> Seq(Bytes)] /\ UNCHANGED <<opening, nextId, sent>>
         /\ \/ f.cmd = "Waste" /\ f.id = 0
            \/ /\ f \in Sends(Peer(x)) /\ Len(got[x]) < Len(sent[Peer(x)])
               /\ f = sent[Peer(x)][Len(got[x]) + 1]
         /\ \A y \in Sides : end'[Peer(y)].w = end[Peer(y)].w => CarriedOK(y)'
<1> DEFINE z == Peer(x)
           t == end[z].w.rest \o end[z].w.buffered
           b == Way(x)
           n == Size(f)
           g == Len(got[x])
           r == tls[x]
           cut == SubSeq(r, n + 1, Len(r))
<1>1. /\ PlTypeOK /\ z \in Sides /\ z # x /\ Peer(z) = x /\ CarriedOK(x) /\ CarriedOK(z) /\ FramesOK(z)
      /\ \A y \in Sides : y = x \/ y = z
  BY Zenon, PeerFacts DEF PlInv, Sides, Peer
<1>2. /\ r \in Seq(Bytes) /\ got[x] \in Seq(Frames) /\ sent[z] \in Seq(Frames) /\ t \in Seq(Bytes)
      /\ b \in Seq(Bytes) /\ b = r \o t
  BY Zenon, <1>1, EndFacts, WayFacts, ConcatProperties DEF Way
<1>3. Header \in Nat \ {0} /\ Len(r) >= Header /\ Len(r) >= n /\ f = r[1][1]
  BY Zenon, HeaderFacts DEF Receive, Size
<1> HIDE DEF t, b, n, g, r
<1>4. /\ Len(b) >= Len(r) /\ Len(b) > 0 /\ g \in Nat /\ Len(r) \in Nat
      /\ \A i \in 1 .. Len(r) : b[i] = r[i]
  <2>1. /\ Len(b) = Len(r) + Len(t) /\ Len(t) \in Nat /\ Len(r) \in Nat
    BY <1>2
  <2>2. \A i \in 1 .. Len(r) : b[i] = r[i]
    BY <1>2
  <2>3. g \in Nat
    BY <1>2 DEF g
  <2> QED  BY <1>3, <2>1, <2>2, <2>3
<1>5. f = b[1][1]
  <2>1. 1 \in 1 .. Len(r)
    BY <1>3, <1>4
  <2> QED  BY <1>3, <1>4, <2>1
<1>6. Carries(b, g, sent[z])
  BY Zenon, <1>1 DEF CarriedOK, b, g
<1>7. /\ f \in Frames /\ n \in 1 .. Len(b) /\ (f.cmd = "Waste" => f.id = 0)
      /\ \A j \in 1 .. n : b[j] = <<f, j>>
      /\ f.cmd # "Waste" => g < Len(sent[z]) /\ sent[z][g + 1] = f
      /\ Carries(SubSeq(b, n + 1, Len(b)), g + Counts(f), sent[z])
  <2> DEFINE o == sent[z]
  <2>1. /\ o \in Seq(Frames) /\ Carries(b, g, o) /\ b \in Seq(Bytes) /\ Len(b) > 0
        /\ g \in Nat /\ f = b[1][1]
    BY <1>2, <1>4, <1>5, <1>6
  <2> HIDE DEF o
  <2>2. /\ f \in Frames /\ Size(f) \in 1 .. Len(b) /\ (f.cmd = "Waste" => f.id = 0)
        /\ \A j \in 1 .. Size(f) : b[j] = <<f, j>>
        /\ f.cmd # "Waste" => g < Len(o) /\ o[g + 1] = f
        /\ Carries(SubSeq(b, Size(f) + 1, Len(b)), g + Counts(f), o)
    BY Zenon, <2>1, CarriesLess
  <2> QED  BY Zenon, <2>2 DEF n, o
<1>8. n \in 0 .. Len(r) /\ n \in 1 .. Len(r)
  BY <1>3, <1>4, <1>7
<1>9. SubSeq(r, 1, n) = Encode(f) /\ r[1][2] = 1
  <2> DEFINE h == SubSeq(r, 1, n)
             c == Encode(f)
  <2>1. h \in Seq(Bytes) /\ Len(h) = n /\ \A i \in 1 .. n : h[i] = r[i]
    BY <1>2, <1>8
  <2>2. c \in Seq(Bytes) /\ Len(c) = n /\ \A i \in 1 .. n : c[i] = <<f, i>>
    BY Zenon, <1>7, EncodeFacts DEF n
  <2>3. ASSUME NEW i \in 1 .. n PROVE r[i] = <<f, i>>
    <3>1. i \in 1 .. Len(r)
      BY <1>4, <1>8
    <3> QED  BY <1>4, <1>7, <3>1
  <2> HIDE DEF h, c
  <2>4. h = c
    <3>1. \A i \in 1 .. Len(h) : h[i] = c[i]
      BY Zenon, <2>1, <2>2, <2>3
    <3> QED  BY Zenon, <2>1, <2>2, <3>1, SeqEqual
  <2>5. r[1] = <<f, 1>>
    BY <1>8, <2>3
  <2> QED  BY <2>4, <2>5 DEF h, c
<1>10. /\ end' = [end EXCEPT ![x] = OnFrame(x, f)]
       /\ got' = IF f.cmd = "Waste" THEN got ELSE [got EXCEPT ![x] = Append(@, f)]
       /\ scheme' = IF f.cmd = "Update" /\ x = "client" THEN [scheme EXCEPT ![x] = f.scheme]
                    ELSE scheme
       /\ tls' = [tls EXCEPT ![x] = cut] /\ UNCHANGED <<opening, nextId, sent>>
  <2>1. tls[x][1][2] = 1 /\ SubSeq(tls[x], 1, Header + f.len) = Encode(f)
    BY Zenon, <1>9 DEF r, n, Size
  <2>2. end' = [end EXCEPT ![x] = OnFrame(x, f)]
    BY Zenon, <2>1 DEF Receive
  <2>3. got' = IF f.cmd = "Waste" THEN got ELSE [got EXCEPT ![x] = Append(@, f)]
    BY Zenon DEF Receive
  <2>4. scheme' = IF f.cmd = "Update" /\ x = "client" THEN [scheme EXCEPT ![x] = f.scheme]
                  ELSE scheme
    BY Zenon, <2>1 DEF Receive
  <2>5. tls' = [tls EXCEPT ![x] = cut] /\ UNCHANGED <<opening, nextId, sent>>
    BY DEF Receive, r, n, Size
  <2> QED  BY <2>2, <2>3, <2>4, <2>5
<1>11. cut \in Seq(Bytes) /\ SubSeq(b, n + 1, Len(b)) = cut \o t
  <2>1. cut \in Seq(Bytes)
    BY <1>2, <1>8
  <2>2. SubSeq(r \o t, n + 1, Len(r \o t)) = cut \o t
    BY Zenon, <1>2, <1>8, CutFront
  <2> QED  BY Zenon, <1>2, <2>1, <2>2
<1> HIDE DEF cut
<1>12. tls' \in [Sides -> Seq(Bytes)] /\ tls'[x] = cut /\ tls'[z] = tls[z]
  BY Zenon, <1>1, <1>10, <1>11 DEF PlTypeOK
<1>13. f.cmd # "Waste" => f \in Sends(z)
  <2>1. sent[z] \in Seq(Sends(z))
    BY Zenon, <1>1 DEF FramesOK
  <2>2. ASSUME f.cmd # "Waste" PROVE g + 1 \in 1 .. Len(sent[z]) /\ f = sent[z][g + 1]
    <3>1. Len(sent[z]) \in Nat
      BY <1>2
    <3>2. g < Len(sent[z]) /\ f = sent[z][g + 1]
      BY Zenon, <1>7, <2>2
    <3> QED  BY Zenon, <1>4, <3>1, <3>2, PlaceAfter
  <2> QED  BY Zenon, <2>1, <2>2, ElementOfSeq
<1>14. ASSUME end'[z].w = end[z].w PROVE CarriedOK(x)'
  <2>1. Way(x)' = cut \o t
    BY Zenon, <1>12, <1>14 DEF Way, t
  <2>2. Carries(Way(x)', g + Counts(f), sent[z])
    BY Zenon, <1>7, <1>11, <2>1
  <2>3. /\ Len(got'[x]) = g + Counts(f) /\ g + Counts(f) <= Len(sent[z])
        /\ \A i \in 1 .. Len(got'[x]) : got'[x][i] = sent[z][i]
    <3>1. g <= Len(sent[z]) /\ \A i \in 1 .. g : got[x][i] = sent[z][i]
      BY Zenon, <1>1 DEF CarriedOK, g
    <3>2. CASE f.cmd = "Waste"
      <4>1. got' = got /\ Counts(f) = 0
        BY Zenon, <1>10, <3>2 DEF Counts
      <4>2. g + 0 = g
        BY <1>4
      <4> QED  BY Zenon, <3>1, <4>1, <4>2 DEF g
    <3>3. CASE f.cmd # "Waste"
      <4>1. got'[x] = Append(got[x], f)
        BY Zenon, <1>1, <1>7, <1>10, <3>3, GotFacts
      <4>2. /\ Len(got'[x]) = g + 1 /\ got'[x][g + 1] = f
            /\ \A i \in 1 .. g : got'[x][i] = got[x][i]
        <5>1. /\ Len(Append(got[x], f)) = Len(got[x]) + 1 /\ Append(got[x], f)[Len(got[x]) + 1] = f
              /\ \A i \in 1 .. Len(got[x]) : Append(got[x], f)[i] = got[x][i]
          BY Zenon, <1>2, <1>7, AppendFacts
        <5> QED  BY Zenon, <4>1, <5>1 DEF g
      <4>3. \A i \in 1 .. g + 1 : i \in 1 .. g \/ i = g + 1
        BY <1>4
      <4>4. g + 1 <= Len(sent[z]) /\ sent[z][g + 1] = f
        <5>1. g < Len(sent[z]) /\ sent[z][g + 1] = f
          BY Zenon, <1>7, <3>3
        <5>2. Len(sent[z]) \in Nat
          BY <1>2
        <5> QED  BY Zenon, <1>4, <5>1, <5>2, PlaceAfter
      <4>5. Counts(f) = 1
        BY Zenon, <3>3 DEF Counts
      <4> QED  BY Zenon, <3>1, <4>2, <4>3, <4>4, <4>5
    <3> QED  BY Zenon, <3>2, <3>3
  <2> QED  BY Zenon, <1>10, <2>2, <2>3 DEF CarriedOK
<1>15. ASSUME end'[x].w = end[x].w PROVE CarriedOK(z)'
  <2>1. Way(z)' = Way(z)
    BY Zenon, <1>1, <1>12, <1>15 DEF Way
  <2>2. got'[z] = got[z] /\ sent'[Peer(z)] = sent[Peer(z)]
    BY Zenon, <1>1, <1>10 DEF PlTypeOK
  <2> QED  BY Zenon, <1>1, <2>1, <2>2, CarriedSame
<1>16. \A y \in Sides : end'[Peer(y)].w = end[Peer(y)].w => CarriedOK(y)'
  BY Zenon, <1>1, <1>14, <1>15
<1> QED  BY Zenon, <1>7, <1>10, <1>12, <1>13, <1>16 DEF g

\* What an end that reads a frame becomes, when it is not refused.
LEMMA OnFrameFacts ==
  ASSUME PlInv, NEW x \in Sides, NEW f \in Frames,
         \/ f.cmd = "Waste" /\ f.id = 0
         \/ /\ f \in Sends(Peer(x)) /\ Len(got[x]) < Len(sent[Peer(x)])
            /\ f = sent[Peer(x)][Len(got[x]) + 1]
  PROVE  LET e == end[x] IN OnFrame(x, f) =
           IF x = "server" /\ f.cmd = "Settings" THEN OnSettings(e, f)
           ELSE IF x = "server" /\ f.cmd = "Syn" THEN [e EXCEPT !.syn = TRUE]
           ELSE IF x = "client" /\ f.cmd = "ServerSettings" THEN [e EXCEPT !.version = 2]
           ELSE e
<1> DEFINE e == end[x]
<1>1. ValidStreamId(f) /\ (AllowsData(f) \/ ~(f.len > 0)) /\ f.cmd # "Alert"
  <2>1. CASE f.cmd = "Waste" /\ f.id = 0
    BY Zenon, <2>1 DEF ValidStreamId, AllowsData
  <2>2. CASE f \in Sends(Peer(x))
    <3>1. f.cmd # "Alert" /\ ValidStreamId(f) /\ (AllowsData(f) \/ f.len = 0)
      BY <2>2 DEF Sends
    <3>2. f.len = 0 => ~(f.len > 0)
      OBVIOUS
    <3> QED  BY Zenon, Zenon, <3>1, <3>2
  <2> QED  BY <2>1, <2>2
<1>2. ASSUME x = "server", f.cmd = "Syn" PROVE e.settings
  <2>1. /\ got[x] \in Seq(Frames) /\ Peer(x) = "client" /\ f = sent["client"][Len(got[x]) + 1]
        /\ Len(got[x]) < Len(sent["client"]) /\ sent["client"] \in Seq(Frames)
    BY <1>2, EndFacts, PeerFacts DEF PlInv, Peer
  <2>2. sent["client"] # << >>
    BY <2>1
  <2>3. sent["client"][1].cmd = "Settings"
    BY Zenon, <2>2 DEF PlInv, ClientOK
  <2>4. got[x] # << >>
    BY <1>2, <2>1, <2>3
  <2> QED  BY Zenon, <1>2, <2>4 DEF PlInv, ServerOK
<1>3. OnFrame(x, f) =
        IF f.cmd = "Settings" /\ x = "server" THEN OnSettings(e, f)
        ELSE IF f.cmd = "Syn" /\ x = "server" THEN OnSyn(e)
        ELSE IF f.cmd = "ServerSettings" /\ x = "client" THEN [e EXCEPT !.version = 2]
        ELSE e
  BY <1>1 DEF OnFrame
<1>4. ASSUME x = "server", f.cmd = "Syn" PROVE OnSyn(e) = [e EXCEPT !.syn = TRUE]
  BY <1>2, <1>4 DEF OnSyn
<1> QED  BY <1>3, <1>4

\* Sequences of frames that get longer.
LEMMA HasMore ==
  ASSUME NEW q \in Seq(Frames), NEW f \in Frames, NEW c
  PROVE  Has(Append(q, f), c) <=> Has(q, c) \/ f.cmd = c
<1> DEFINE t == Append(q, f)
<1>1. /\ Len(t) = Len(q) + 1 /\ t[Len(q) + 1] = f /\ \A i \in 1 .. Len(q) : t[i] = q[i]
      /\ Len(q) \in Nat
  OBVIOUS
<1> HIDE DEF t
<1>2. ASSUME NEW i \in 1 .. Len(t), t[i].cmd = c PROVE Has(q, c) \/ f.cmd = c
  BY <1>1, <1>2 DEF Has
<1>3. Has(q, c) => Has(t, c)
  BY <1>1 DEF Has
<1>4. f.cmd = c => Has(t, c)
  <2>1. Len(q) + 1 \in 1 .. Len(t)
    BY <1>1
  <2> QED  BY <1>1, <2>1 DEF Has
<1> QED  BY <1>2, <1>3, <1>4 DEF Has, t

\* The server's answers to Settings: its scheme if the client has another, and its version.
LEMMA OnSettingsFacts ==
  ASSUME NEW e \in Ends, NEW f \in Frames, e.ctl \in Seq(Sends("server"))
  PROVE  LET d == OnSettings(e, f)
         IN  /\ d \in Ends /\ d.w = e.w /\ d.up = e.up /\ d.data = e.data /\ d.syn = e.syn
             /\ d.settings /\ d.version = 2 /\ d.ctl \in Seq(Sends("server"))
             /\ Has(d.ctl, "ServerSettings") /\ (f.scheme # "server" => Has(d.ctl, "Update"))
<1> DEFINE u == Frame("Update", 0, 1, "server")
           a == Frame("ServerSettings", 0, 1, "none")
           d == OnSettings(e, f)
           q == e.ctl
<1>1. /\ u \in Frames /\ a \in Frames /\ u.cmd = "Update" /\ a.cmd = "ServerSettings"
      /\ u \in Sends("server") /\ a \in Sends("server")
  BY PaddingAssumption DEF Frame, Frames, Sides, Sends, ValidStreamId, AllowsData
<1>2. q \in Seq(Frames)
  BY DEF Ends
<1> DEFINE r == IF f.scheme # "server" THEN Append(Append(q, u), a) ELSE Append(q, a)
<1>3. d = [e EXCEPT !.settings = TRUE, !.version = 2, !.ctl = r]
  <2> HIDE DEF u, a
  <2>1. << >> \o <<a>> = <<a>> /\ q \o <<a>> = Append(q, a)
    BY <1>1, <1>2
  <2>2. q \o (<<u>> \o <<a>>) = Append(Append(q, u), a)
    BY <1>1, <1>2
  <2>3. d = [e EXCEPT !.settings = TRUE, !.version = 2,
                      !.ctl = q \o ((IF f.scheme # "server" THEN <<u>> ELSE << >>) \o <<a>>)]
    BY DEF OnSettings, Queue, u, a, Ends
  <2> QED  BY Zenon, <2>1, <2>2, <2>3
<1> HIDE DEF d, u, a
<1>4. /\ r \in Seq(Frames) /\ r \in Seq(Sends("server"))
      /\ Has(r, "ServerSettings") /\ (f.scheme # "server" => Has(r, "Update"))
  <2>1. Append(q, u) \in Seq(Frames) /\ Append(q, u) \in Seq(Sends("server"))
    BY <1>1, <1>2
  <2>2. CASE f.scheme # "server"
    <3>1. Has(Append(q, u), "Update")
      BY <1>1, <1>2, HasMore
    <3>2. Has(Append(Append(q, u), a), "Update") /\ Has(Append(Append(q, u), a), "ServerSettings")
      BY Zenon, <1>1, <2>1, <3>1, HasMore
    <3> QED  BY <1>1, <2>1, <2>2, <3>2
  <2>3. CASE f.scheme = "server"
    <3>1. Has(Append(q, a), "ServerSettings")
      BY <1>1, <1>2, HasMore
    <3> QED  BY <1>1, <1>2, <2>3, <3>1
  <2> QED  BY <2>2, <2>3
<1> HIDE DEF r
<1>5. /\ d \in Ends /\ d.w = e.w /\ d.up = e.up /\ d.data = e.data /\ d.syn = e.syn
      /\ d.settings /\ d.version = 2 /\ d.ctl = r
  BY Zenon, <1>3, <1>4 DEF Ends
<1> QED  BY Zenon, <1>4, <1>5 DEF d

\* The client reads an answer, its new scheme, data or waste.
LEMMA ReceiveClientInv ==
  ASSUME PlInv, Receive("client")
  PROVE  PlInv'
<1> DEFINE f == tls["client"][1][1]
           e == end["client"]
           d == OnFrame("client", f)
<1>1. "client" \in Sides /\ "server" \in Sides /\ Peer("client") = "server" /\ Peer("server") = "client"
  BY Zenon DEF Sides, Peer
<1>2. /\ f \in Frames /\ end' = [end EXCEPT !["client"] = d]
      /\ got' = IF f.cmd = "Waste" THEN got ELSE [got EXCEPT !["client"] = Append(@, f)]
      /\ scheme' = IF f.cmd = "Update" THEN [scheme EXCEPT !["client"] = f.scheme] ELSE scheme
      /\ tls' \in [Sides -> Seq(Bytes)] /\ UNCHANGED <<opening, nextId, sent>>
      /\ \/ f.cmd = "Waste" /\ f.id = 0
         \/ /\ f \in Sends("server") /\ Len(got["client"]) < Len(sent["server"])
            /\ f = sent["server"][Len(got["client"]) + 1]
      /\ \A y \in Sides : end'[Peer(y)].w = end[Peer(y)].w => CarriedOK(y)'
  BY <1>1, ReceiveFrame
<1> HIDE DEF f
<1>3. d = IF f.cmd = "ServerSettings" THEN [e EXCEPT !.version = 2] ELSE e
  BY Zenon, <1>1, <1>2, OnFrameFacts
<1>4. PlTypeOK /\ e \in Ends /\ got["client"] \in Seq(Frames)
  BY <1>1, EndFacts DEF PlInv
<1>5. /\ d \in Ends /\ d.w = e.w /\ d.up = e.up /\ d.ctl = e.ctl /\ d.data = e.data
      /\ d.settings = e.settings /\ d.syn = e.syn
      /\ d.version = IF f.cmd = "ServerSettings" THEN 2 ELSE e.version
  <2> HIDE DEF d
  <2> QED  BY Zenon, <1>3, <1>4 DEF Ends
<1> HIDE DEF d
<1>6. end' \in [Sides -> Ends] /\ end'["client"] = d /\ end'["server"] = end["server"]
  BY Zenon, <1>1, <1>2, <1>4, <1>5, EndReplaced
<1>7. \A y \in Sides : /\ end'[y].w = end[y].w /\ end'[y].up = end[y].up /\ end'[y].ctl = end[y].ctl
                       /\ end'[y].data = end[y].data
  BY <1>5, <1>6 DEF Sides
<1>8. f.cmd = "Update" => f.scheme = "server"
  BY <1>2 DEF Sends
<1>9. /\ scheme' \in [Sides -> Sides]
      /\ scheme'["client"] = IF f.cmd = "Update" THEN "server" ELSE scheme["client"]
  BY Zenon, <1>1, <1>2, <1>4, <1>8 DEF PlTypeOK
<1>10. /\ got' \in [Sides -> Seq(Frames)] /\ got'["server"] = got["server"]
       /\ got'["client"] = IF f.cmd = "Waste" THEN got["client"] ELSE Append(got["client"], f)
  BY Zenon, <1>1, <1>2, <1>4, GotFacts
<1>11. PlTypeOK' /\ NeverRefused'
  BY Zenon, <1>2, <1>4, <1>6, <1>7, <1>9, <1>10 DEF PlInv, PlTypeOK, NeverRefused, PadsInTime
<1>12. ASSUME NEW y \in Sides PROVE WriterOK(end[y].w)' /\ CarriedOK(y)'
  <2>1. Peer(y) \in Sides
    BY Zenon, PeerFacts
  <2>2. CarriedOK(y)'
    BY Zenon, <1>2, <1>7, <2>1
  <2>3. WriterOK(end[y].w)'
    BY Zenon, <1>7 DEF PlInv
  <2> QED  BY <2>2, <2>3
<1>13. ASSUME NEW y \in Sides PROVE FramesOK(y)'
  <2>1. Sends(y) \subseteq Sends(y)' /\ FramesOK(y)
    BY Zenon, <1>2, <1>9, SendsGrow DEF PlInv
  <2> QED  BY Zenon, <1>2, <1>7, <2>1, SeqMonotonic DEF FramesOK
<1>14. ClientOK'
  BY Zenon, <1>1, <1>2, <1>7 DEF PlInv, ClientOK
<1>15. ServerOK'
  <2>1. ASSUME NEW c PROVE Has(got'["client"], c) => Has(got["client"], c) \/ f.cmd = c
    <3>1. Has(Append(got["client"], f), c) => Has(got["client"], c) \/ f.cmd = c
      BY Zenon, <1>2, <1>4, HasMore
    <3> QED  BY Zenon, <1>10, <3>1
  <2> QED  BY Zenon, <1>1, <1>2, <1>5, <1>6, <1>9, <1>10, <2>1 DEF PlInv, ServerOK, Answered
<1> QED  BY <1>11, <1>12, <1>13, <1>14, <1>15 DEF PlInv

\* The server reads the Settings first, and answers them.
LEMMA ReceiveServerInv ==
  ASSUME PlInv, Receive("server")
  PROVE  PlInv'
<1> DEFINE f == tls["server"][1][1]
           e == end["server"]
           d == OnFrame("server", f)
<1>1. "client" \in Sides /\ "server" \in Sides /\ Peer("client") = "server" /\ Peer("server") = "client"
  BY Zenon DEF Sides, Peer
<1>2. /\ f \in Frames /\ end' = [end EXCEPT !["server"] = d]
      /\ got' = IF f.cmd = "Waste" THEN got ELSE [got EXCEPT !["server"] = Append(@, f)]
      /\ scheme' = scheme
      /\ tls' \in [Sides -> Seq(Bytes)] /\ UNCHANGED <<opening, nextId, sent>>
      /\ \/ f.cmd = "Waste" /\ f.id = 0
         \/ /\ f \in Sends("client") /\ Len(got["server"]) < Len(sent["client"])
            /\ f = sent["client"][Len(got["server"]) + 1]
      /\ \A y \in Sides : end'[Peer(y)].w = end[Peer(y)].w => CarriedOK(y)'
  BY <1>1, ReceiveFrame
<1> HIDE DEF f
<1>3. d = IF f.cmd = "Settings" THEN OnSettings(e, f)
          ELSE IF f.cmd = "Syn" THEN [e EXCEPT !.syn = TRUE] ELSE e
  BY Zenon, <1>1, <1>2, OnFrameFacts
<1>4. /\ PlTypeOK /\ e \in Ends /\ got["server"] \in Seq(Frames) /\ e.ctl \in Seq(Sends("server"))
      /\ sent["client"] \in Seq(Frames)
  BY Zenon, <1>1, EndFacts DEF PlInv, FramesOK
<1>5. /\ d \in Ends /\ d.w = e.w /\ d.up = e.up /\ d.data = e.data
      /\ d.ctl \in Seq(Sends("server"))
      /\ f.cmd = "Settings" =>
           /\ d.settings /\ d.version = 2 /\ d.syn = e.syn
           /\ Has(d.ctl, "ServerSettings") /\ (f.scheme # "server" => Has(d.ctl, "Update"))
      /\ f.cmd # "Settings" =>
           /\ d.settings = e.settings /\ d.version = e.version /\ d.ctl = e.ctl
           /\ d.syn => e.syn \/ f.cmd = "Syn"
  <2>1. CASE f.cmd = "Settings"
    <3>1. d = OnSettings(e, f)
      BY <1>3, <2>1
    <3> HIDE DEF d
    <3> QED  BY Zenon, <1>2, <1>4, <2>1, <3>1, OnSettingsFacts
  <2>2. CASE f.cmd # "Settings"
    <3>1. d = IF f.cmd = "Syn" THEN [e EXCEPT !.syn = TRUE] ELSE e
      BY <1>3, <2>2
    <3> HIDE DEF d
    <3> QED  BY Zenon, <1>4, <2>2, <3>1 DEF Ends
  <2> QED  BY Zenon, <2>1, <2>2
<1> HIDE DEF d
<1>6. end' \in [Sides -> Ends] /\ end'["server"] = d /\ end'["client"] = end["client"]
  BY Zenon, <1>1, <1>2, <1>4, <1>5, EndReplaced
<1>7. \A y \in Sides : /\ end'[y].w = end[y].w /\ end'[y].up = end[y].up /\ end'[y].data = end[y].data
  BY <1>5, <1>6 DEF Sides
<1>8. /\ got' \in [Sides -> Seq(Frames)] /\ got'["client"] = got["client"]
      /\ got'["server"] = IF f.cmd = "Waste" THEN got["server"] ELSE Append(got["server"], f)
  BY Zenon, <1>1, <1>2, <1>4, GotFacts
<1>9. PlTypeOK' /\ NeverRefused'
  BY Zenon, <1>2, <1>4, <1>6, <1>7, <1>8 DEF PlInv, PlTypeOK, NeverRefused, PadsInTime
<1>10. ASSUME NEW y \in Sides PROVE WriterOK(end[y].w)' /\ CarriedOK(y)'
  <2>1. Peer(y) \in Sides
    BY Zenon, PeerFacts
  <2>2. CarriedOK(y)'
    BY Zenon, <1>2, <1>7, <2>1
  <2>3. WriterOK(end[y].w)'
    BY Zenon, <1>7 DEF PlInv
  <2> QED  BY <2>2, <2>3
<1>11. ASSUME NEW y \in Sides PROVE FramesOK(y)'
  <2>1. Sends(y)' = Sends(y) /\ FramesOK(y)
    BY Zenon, <1>2 DEF Sends, PlInv
  <2>2. CASE y = "client"
    BY Zenon, <1>2, <1>6, <2>1, <2>2 DEF FramesOK
  <2>3. CASE y = "server"
    BY Zenon, <1>2, <1>5, <1>6, <2>1, <2>3 DEF FramesOK
  <2> QED  BY Zenon, <2>2, <2>3 DEF Sides
<1>12. ClientOK'
  BY Zenon, <1>2, <1>6 DEF PlInv, ClientOK
<1>13. ServerOK'
  <2>1. ~d.w.buffering
    BY <1>5 DEF PlInv, ServerOK
  <2>2. got'["server"] # << >> => d.settings
    <3>1. CASE f.cmd = "Settings"
      BY Zenon, <1>5, <3>1
    <3>2. CASE f.cmd = "Waste"
      BY Zenon, <1>5, <1>8, <3>2 DEF PlInv, ServerOK
    <3>3. CASE f.cmd # "Settings" /\ f.cmd # "Waste"
      <4>1. sent["client"] # << >> /\ f = sent["client"][Len(got["server"]) + 1]
        <5>1. /\ Len(got["server"]) < Len(sent["client"]) /\ Len(got["server"]) \in Nat
              /\ f = sent["client"][Len(got["server"]) + 1]
          BY Zenon, <1>2, <1>4, <3>3, CountFacts
        <5> QED  BY Zenon, <5>1, NoneBelowNone
      <4>2. sent["client"][1].cmd = "Settings"
        BY Zenon, <4>1 DEF PlInv, ClientOK
      <4>3. got["server"] # << >>
        BY <1>4, <3>3, <4>1, <4>2
      <4> QED  BY <1>5, <3>3, <4>3 DEF PlInv, ServerOK
    <3> QED  BY Zenon, <3>1, <3>2, <3>3
  <2>3. d.syn => nextId > 0
    <3>1. f.cmd = "Syn" => nextId > 0
      BY Zenon, <1>2 DEF Sends
    <3>2. e.syn => nextId > 0
      BY Zenon DEF PlInv, ServerOK
    <3> QED  BY Zenon, <1>5, <3>1, <3>2
  <2>4. ASSUME f.cmd = "Settings"
        PROVE  /\ d.version = 2 /\ Answered("ServerSettings")'
               /\ scheme["client"] = "server" \/ Answered("Update")'
    <3>1. f.scheme = "server" => scheme["client"] = "server"
      BY Zenon, <1>2, <2>4 DEF Sends
    <3> QED  BY Zenon, <1>5, <1>6, <2>4, <3>1 DEF Answered
  <2>5. ASSUME f.cmd # "Settings", d.settings
        PROVE  /\ d.version = 2 /\ Answered("ServerSettings")'
               /\ scheme["client"] = "server" \/ Answered("Update")'
    BY Zenon, <1>2, <1>5, <1>6, <2>5 DEF PlInv, ServerOK, Answered
  <2>6. /\ Has(got["client"], "ServerSettings") => end["client"].version = 2
        /\ Has(got["client"], "Update") => scheme["client"] = "server"
    BY Zenon DEF PlInv, ServerOK
  <2> QED  BY Zenon, <1>2, <1>6, <1>8, <2>1, <2>2, <2>3, <2>4, <2>5, <2>6 DEF ServerOK
<1> QED  BY Zenon, <1>9, <1>10, <1>11, <1>12, <1>13 DEF PlInv

-----------------------------------------------------------------------------
(* The theorems.                                                           *)

\* Both ends begin with nothing sent.
LEMMA PlInitInv == PlInit => PlInv
<1> SUFFICES ASSUME PlInit PROVE PlInv
  OBVIOUS
<1>1. << >> \in Seq(Frames) /\ << >> \in Seq(Bytes) /\ << >> \in Seq(Entry)
  BY Zenon, EmptySeq
<1>2. ASSUME NEW x \in Sides
      PROVE  /\ NewWriter(x) \in PadWriter /\ PadsInTime(NewWriter(x)) /\ WriterOK(NewWriter(x))
             /\ NewWriter(x).rest = << >> /\ NewWriter(x).buffered = << >>
             /\ NewWriter("server").buffering = FALSE
  <2>1. NewWriter(x) \in PadWriter
    BY <1>1 DEF NewWriter, PadWriter
  <2>2. NewWriter(x).count = 0
    BY DEF NewWriter
  <2>3. PadsInTime(NewWriter(x))
    BY <2>2 DEF PadsInTime
  <2> QED  BY Zenon, <2>1, <2>3 DEF NewWriter, WriterOK
<1>3. ASSUME NEW x \in Sides
      PROVE  /\ end[x] \in Ends /\ end[x].w = NewWriter(x) /\ end[x].up /\ ~end[x].settings
             /\ ~end[x].syn /\ end[x].ctl = << >> /\ end[x].data = << >>
             /\ sent[x] = << >> /\ got[x] = << >> /\ tls[x] = << >>
  <2>1. end[x] = [ctl |-> << >>, data |-> << >>, pushes |-> 0, w |-> NewWriter(x),
                  up |-> TRUE, settings |-> FALSE, syn |-> FALSE, version |-> 0]
    BY DEF PlInit
  <2>2. 0 \in 0 .. Pushes
    BY PaddingAssumption
  <2>3. end[x] \in Ends
    <3> DEFINE v == NewWriter(x)
    <3>1. v \in PadWriter
      BY Zenon, <1>2
    <3> HIDE DEF v
    <3>2. [ctl |-> << >>, data |-> << >>, pushes |-> 0, w |-> v,
           up |-> TRUE, settings |-> FALSE, syn |-> FALSE, version |-> 0] \in Ends
      BY Zenon, <1>1, <2>2, <3>1 DEF Ends
    <3> QED  BY Zenon, <2>1, <3>2 DEF v
  <2>4. sent[x] = << >> /\ got[x] = << >> /\ tls[x] = << >>
    BY DEF PlInit
  <2> QED  BY <2>1, <2>3, <2>4
<1>4. PlTypeOK /\ NeverRefused
  <2>1. end \in [Sides -> Ends]
    BY Zenon, <1>3 DEF PlInit
  <2>2. /\ tls \in [Sides -> Seq(Bytes)]
        /\ sent \in [Sides -> Seq(Frames)] /\ got \in [Sides -> Seq(Frames)]
    BY Zenon, <1>1 DEF PlInit
  <2>3. /\ scheme \in [Sides -> Sides] /\ opening \in {"new", "run", "syn", "open"}
        /\ nextId \in 0 .. MaxId
    BY Zenon DEF PlInit
  <2>4. \A x \in Sides : PadsInTime(end[x].w) /\ end[x].up
    BY Zenon, <1>2, <1>3
  <2> QED  BY Zenon, <2>1, <2>2, <2>3, <2>4 DEF PlTypeOK, NeverRefused
<1>5. ASSUME NEW x \in Sides PROVE WriterOK(end[x].w) /\ CarriedOK(x) /\ FramesOK(x)
  <2>1. Peer(x) \in Sides
    BY PeerFacts
  <2>2. Way(x) = << >>
    <3>1. /\ tls[x] = << >> /\ end[Peer(x)].w.rest = << >> /\ end[Peer(x)].w.buffered = << >>
      BY Zenon, <1>2, <1>3, <2>1
    <3>2. << >> \o (<< >> \o << >>) = << >>
      BY Zenon, <1>1, ConcatEmptySeq
    <3> QED  BY Zenon, <3>1, <3>2 DEF Way
  <2>3. CarriedOK(x)
    BY <1>3, <2>1, <2>2, CarriesNothing DEF CarriedOK
  <2>4. FramesOK(x)
    BY Zenon, <1>3, EmptySeq DEF FramesOK
  <2> QED  BY Zenon, <1>2, <1>3, <2>3, <2>4
<1>6. ClientOK
  BY <1>3 DEF ClientOK, PlInit, Sides
<1>7. ServerOK
  <2>1. "server" \in Sides /\ "client" \in Sides
    BY Zenon DEF Sides
  <2>2. ~end["server"].w.buffering
    BY Zenon, <1>2, <1>3, <2>1
  <2>3. /\ got["server"] = << >> /\ ~end["server"].syn /\ ~end["server"].settings
        /\ got["client"] = << >>
    BY <1>3, <2>1
  <2>4. \A c : ~Has(<< >>, c)
    BY DEF Has
  <2> QED  BY <2>2, <2>3, <2>4 DEF ServerOK
<1> QED  BY <1>4, <1>5, <1>6, <1>7 DEF PlInv

\* Every step preserves the invariant.
LEMMA PlNextInv == PlInv /\ [PlNext]_plVars => PlInv'
<1> SUFFICES ASSUME PlInv, [PlNext]_plVars PROVE PlInv'
  OBVIOUS
<1>1. CASE UNCHANGED plVars
  <2>1. UNCHANGED <<end, tls, scheme, opening, nextId, sent, got>>
    BY <1>1 DEF plVars
  <2>2. NeverRefused' /\ \A x \in Sides : WriterOK(end[x].w)' /\ CarriedOK(x)'
    BY Zenon, <2>1, CalmStep
  <2>3. PlTypeOK' /\ ClientOK' /\ ServerOK'
    BY Zenon, <2>1 DEF PlInv, PlTypeOK, PadsInTime, ClientOK, ServerOK, Answered
  <2>4. \A x \in Sides : FramesOK(x)'
    BY Zenon, <2>1 DEF PlInv, FramesOK, Sends
  <2> QED  BY <2>2, <2>3, <2>4 DEF PlInv
<1>2. ASSUME NEW x \in Sides, Receive(x) PROVE PlInv'
  BY <1>2, ReceiveClientInv, ReceiveServerInv DEF Sides
<1> QED  BY <1>1, <1>2, RunInv, OpenStreamInv, OpenedInv, OtherUpdateInv, PushInv, TakeInv,
            WriteRecordInv, WriteRestInv DEF PlNext

\* The invariant holds from Session::new on.
LEMMA PlSafety == PlSpec => []PlInv
BY PlInitInv, PlNextInv, PTL DEF PlSpec

\* The writers, queues and buffers keep their types, and nobody pads longer than a scheme
\* says (Writer, write_conn).
THEOREM PlTypeCorrect == PlSpec => []PlTypeOK
<1>1. PlInv => PlTypeOK
  BY DEF PlInv
<1> QED  BY <1>1, PlSafety, PTL

\* Nothing that one end writes is refused by the other (receive_loop, on_receive_syn_cmd).
THEOREM NothingIsRefused == PlSpec => []NeverRefused
<1>1. PlInv => NeverRefused
  BY Zenon DEF PlInv
<1> QED  BY <1>1, PlSafety, PTL

\* A side that is sent nothing more has read everything.
LEMMA AllRead ==
  ASSUME PlInv, NEW x \in Sides, tls[x] = << >>, ~end[Peer(x)].w.buffering,
         end[Peer(x)].w.at = "idle"
  PROVE  got[x] = sent[Peer(x)]
<1>1. /\ Peer(x) \in Sides /\ PlTypeOK /\ CarriedOK(x) /\ WriterOK(end[Peer(x)].w)
  BY Zenon, PeerFacts DEF PlInv
<1>2. got[x] \in Seq(Frames) /\ sent[Peer(x)] \in Seq(Frames)
  BY Zenon, <1>1, EndFacts
<1>3. Way(x) = << >>
  BY <1>1 DEF WriterOK, Way
<1>4. Len(got[x]) = Len(sent[Peer(x)])
  BY Zenon, <1>1, <1>3, CarriesNothing DEF CarriedOK
<1> QED  BY Zenon, <1>1, <1>2, <1>4, SeqEqual DEF CarriedOK

\* What is read is what was sent, in order, however it was cut and filled, and in the end
\* all of it (write_conn, read_from_or_eof).
THEOREM ReadIsSent == PlSpec => []DecodedAsSent
<1>1. PlInv => DecodedAsSent
  <2> SUFFICES ASSUME PlInv, NEW x \in Sides
               PROVE  LET w == end[Peer(x)].w
                      IN  /\ Len(got[x]) <= Len(sent[Peer(x)])
                          /\ \A i \in 1 .. Len(got[x]) : got[x][i] = sent[Peer(x)][i]
                          /\ tls[x] = << >> /\ ~w.buffering /\ w.at = "idle"
                               => got[x] = sent[Peer(x)]
    BY DEF DecodedAsSent
  <2>1. CarriedOK(x)
    BY Zenon DEF PlInv
  <2> QED  BY Zenon, <2>1, AllRead DEF CarriedOK
<1> QED  BY <1>1, PlSafety, PTL

\* When the server's answers have been read both ends know the version and the client has
\* the server's scheme (on_receive_settings).
THEOREM BothAgree == PlSpec => []SettingsAgreed
<1>1. PlInv => SettingsAgreed
  <2> SUFFICES ASSUME PlInv, end["server"].settings, end["server"].ctl = << >>,
                      end["server"].w.at = "idle", tls["client"] = << >>
               PROVE  /\ scheme["client"] = "server"
                      /\ \A x \in Sides : end[x].version = 2
    BY DEF SettingsAgreed
  <2>1. "client" \in Sides /\ Peer("client") = "server"
    BY Zenon DEF Sides, Peer
  <2>2. got["client"] = sent["server"]
    BY Zenon, <2>1, AllRead DEF PlInv, ServerOK
  <2>3. \A c : Answered(c) => Has(got["client"], c)
    BY <2>2 DEF Answered, Has
  <2> QED  BY Zenon, <2>3 DEF PlInv, ServerOK, Sides
<1> QED  BY <1>1, PlSafety, PTL
=============================================================================
