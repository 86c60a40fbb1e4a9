------------------------ MODULE SessionStreamsProofs ------------------------
(***************************************************************************)
(* Proofs, for all values of the constants, of the safety invariants of    *)
(* SessionStreams: the steps that move frames between the two sides, the   *)
(* opening of a stream and the arrival of its SYN, and every step          *)
(* together, given what SessionStreamsSteps shows of those of one side.    *)
(***************************************************************************)
EXTENDS SessionStreamsSteps

-----------------------------------------------------------------------------
(* The order of frames.                                                    *)

\* What the tail of a queue is.
LEMMA TailFacts ==
  ASSUME NEW q \in Seq(Frame), q # << >>, NEW t, t = Tail(q)
  PROVE  /\ t \in Seq(Frame) /\ Len(t) = Len(q) - 1 /\ Len(q) \in Nat \ {0}
         /\ DOMAIN q = 1 .. Len(q) /\ DOMAIN t = 1 .. Len(t)
         /\ Head(q) = q[1] /\ Head(q) \in Frame
         /\ \A i \in 1 .. Len(q) - 1 : t[i] = q[i + 1]
OBVIOUS

\* What an extended queue is.
LEMMA AppendFacts ==
  ASSUME NEW q \in Seq(Frame), NEW f \in Frame, NEW p, p = Append(q, f)
  PROVE  /\ p \in Seq(Frame) /\ Len(p) = Len(q) + 1 /\ Len(q) \in Nat
         /\ DOMAIN q = 1 .. Len(q) /\ DOMAIN p = 1 .. Len(q) + 1
         /\ p[Len(q) + 1] = f
         /\ \A i \in 1 .. Len(q) : p[i] = q[i]
OBVIOUS

\* NoSid in terms of elements.
LEMMA NoSidElements ==
  ASSUME NEW q, NEW s PROVE NoSid(q, s) <=> \A f \in Elements(q) : f.sid # s
BY DEF NoSid, Elements

\* An empty queue is in order.
LEMMA SynFirstEmpty == SynFirst(<< >>) /\ Elements(<< >>) = {}
BY DEF SynFirst, Elements

\* Taking the head keeps a queue in order, and no SYN follows a frame of its stream.
LEMMA SynFirstTail ==
  ASSUME NEW q \in Seq(Frame), q # << >>, SynFirst(q)
  PROVE  /\ SynFirst(Tail(q))
         /\ \A f \in Elements(Tail(q)) : f.cmd = "Syn" => f.sid # Head(q).sid
<1> DEFINE t == Tail(q)
<1>1. /\ t \in Seq(Frame) /\ Len(t) = Len(q) - 1 /\ Len(q) \in Nat \ {0}
      /\ DOMAIN q = 1 .. Len(q) /\ DOMAIN t = 1 .. Len(t)
      /\ Head(q) = q[1]
      /\ \A i \in 1 .. Len(q) - 1 : t[i] = q[i + 1]
  BY TailFacts
<1> HIDE DEF t
<1>2. ASSUME NEW i \in DOMAIN t, t[i].cmd = "Syn"
      PROVE  t[i].sid # q[1].sid /\ \A j \in 1 .. i - 1 : t[j].sid # t[i].sid
  <2>1. i + 1 \in DOMAIN q /\ t[i] = q[i + 1] /\ 1 \in 1 .. (i + 1) - 1
    BY <1>1
  <2>2. \A j \in 1 .. (i + 1) - 1 : q[j].sid # q[i + 1].sid
    BY <1>2, <2>1 DEF SynFirst
  <2>3. ASSUME NEW j \in 1 .. i - 1 PROVE t[j].sid # t[i].sid
    <3>1. t[j] = q[j + 1] /\ j + 1 \in 1 .. (i + 1) - 1
      BY <1>1
    <3>. QED  BY <2>1, <2>2, <3>1
  <2>. QED  BY <2>1, <2>2, <2>3
<1>3. SynFirst(t)
  BY <1>2 DEF SynFirst
<1>4. \A f \in Elements(t) : f.cmd = "Syn" => f.sid # Head(q).sid
  BY <1>1, <1>2 DEF Elements
<1>. QED  BY <1>3, <1>4 DEF t

\* A queue stays in order when a frame is added that is no SYN or is the first of its stream.
LEMMA SynFirstAppend ==
  ASSUME NEW q \in Seq(Frame), NEW f \in Frame, SynFirst(q),
         f.cmd = "Syn" => NoSid(q, f.sid)
  PROVE  SynFirst(Append(q, f))
<1> DEFINE p == Append(q, f)
<1>1. /\ p \in Seq(Frame) /\ Len(p) = Len(q) + 1 /\ Len(q) \in Nat
      /\ DOMAIN q = 1 .. Len(q) /\ DOMAIN p = 1 .. Len(q) + 1
      /\ p[Len(q) + 1] = f
      /\ \A i \in 1 .. Len(q) : p[i] = q[i]
  BY AppendFacts
<1> HIDE DEF p
<1>2. ASSUME NEW i \in DOMAIN p, p[i].cmd = "Syn", NEW j \in 1 .. i - 1
      PROVE  p[j].sid # p[i].sid
  <2>1. j \in DOMAIN q /\ p[j] = q[j]
    BY <1>1
  <2>2. CASE i = Len(q) + 1
    BY <1>1, <1>2, <2>1, <2>2 DEF NoSid
  <2>3. CASE i # Len(q) + 1
    <3>1. i \in DOMAIN q /\ p[i] = q[i]
      BY <1>1, <2>3
    <3>. QED  BY <1>2, <2>1, <3>1 DEF SynFirst
  <2>. QED  BY <2>2, <2>3
<1>. QED  BY <1>2 DEF SynFirst, p

\* An extension adds no SYN and keeps a queue in order.
LEMMA ExtensionElements ==
  ASSUME NEW x \in Side, NEW r \in Session, NEW p \in Seq(Frame), NEW q, Extension(x, r, p, q)
  PROVE  /\ \A f \in Elements(q) :
              \/ f \in Elements(p)
              \/ /\ f \in Frame /\ r.handle[f.sid] # "none"
                 /\ f.cmd # "Syn" /\ (f.cmd = "Reject" => x = "server")
         /\ SynFirst(p) => SynFirst(q)
<1>1. CASE q = p
  BY <1>1
<1>2. CASE q = << >>
  BY <1>2, SynFirstEmpty
<1>3. CASE p # << >> /\ q = Tail(p)
  BY <1>3, SynFirstTail, ElementsHeadTail
<1>4. ASSUME NEW s \in StreamId, NEW c \in {"Push", "Fin", "Reject"},
             r.handle[s] # "none", c = "Reject" => x = "server",
             q = Append(p, FrameOf(c, s))
      PROVE  /\ \A f \in Elements(q) :
                  \/ f \in Elements(p)
                  \/ /\ f \in Frame /\ r.handle[f.sid] # "none"
                     /\ f.cmd # "Syn" /\ (f.cmd = "Reject" => x = "server")
             /\ SynFirst(p) => SynFirst(q)
  <2> DEFINE g == FrameOf(c, s)
  <2>1. g \in Frame /\ g.cmd = c /\ g.sid = s
    BY <1>4 DEF FrameOf, Frame, Command
  <2> HIDE DEF g
  <2>2. Elements(q) = Elements(p) \cup {g}
    BY <1>4, <2>1, ElementsAppend DEF g
  <2>3. SynFirst(p) => SynFirst(q)
    BY <1>4, <2>1, SynFirstAppend DEF g
  <2>. QED  BY <1>4, <2>1, <2>2, <2>3
<1>. QED  BY <1>1, <1>2, <1>3, <1>4 DEF Extension

-----------------------------------------------------------------------------
(* What both sides together preserve.                                      *)

\* There are two sides, each the peer of the other.
LEMMA Sides ==
  ASSUME NEW x \in Side
  PROVE  /\ Peer(x) \in Side /\ Peer(x) # x /\ Peer(Peer(x)) = x
         /\ \A z \in Side : z = x \/ z = Peer(x)
         /\ "client" \in Side /\ "server" \in Side
         /\ Peer("client") = "server" /\ Peer("server") = "client"
BY DEF Side, Peer

\* Side x changes its session by q; frames of its peer may leave the transport.
Reads(x, q) ==
  /\ Good(x, ses[x], q)
  /\ ses' = [ses EXCEPT ![x] = q] /\ wire'[x] = wire[x] /\ wire' \in [Side -> Seq(Frame)]
  /\ wire'[Peer(x)] \in {wire[Peer(x)], << >>}
     \/ (wire[Peer(x)] # << >> /\ wire'[Peer(x)] = Tail(wire[Peer(x)]))

\* Frame f may leave the transport without harm when side x goes to q.
Handled(x, q, f) ==
  /\ f.cmd \in {"Push", "Fin"}
  /\ f.cmd = "Fin" => /\ q.active = f.sid => "remote_fin" \in q.flags
                      /\ x = "server" => FrameOf("Syn", f.sid) \notin InFlight("client")'

\* Such a step adds to what is in flight only frames of streams in use.
LEMMA ReadsFrames ==
  ASSUME TypeOK, NEW x \in Side, NEW q \in Session, Reads(x, q)
  PROVE  /\ TypeOK' /\ ses'[x] = q /\ ses'[Peer(x)] = ses[Peer(x)]
         /\ Elements(wire'[Peer(x)]) \subseteq Elements(wire[Peer(x)])
         /\ InFlight(Peer(x))' \subseteq InFlight(Peer(x))
         /\ \A f \in InFlight(x)' :
              \/ f \in InFlight(x)
              \/ /\ f \in Frame /\ ses[x].handle[f.sid] # "none"
                 /\ f.cmd # "Syn" /\ (f.cmd = "Reject" => x = "server")
         /\ Alive(q) => Alive(ses[x]) /\ InFlight(x) \subseteq InFlight(x)'
<1>1. Peer(x) \in Side /\ Peer(x) # x
  BY Sides
<1>2. TypeOK'
  BY DEF TypeOK, Reads
<1>3. ses'[x] = q /\ ses'[Peer(x)] = ses[Peer(x)] /\ wire'[x] = wire[x]
  BY <1>1 DEF TypeOK, Reads
<1>4. wire[Peer(x)] \in Seq(Frame) /\ ses[x] \in Session
  BY <1>1 DEF TypeOK
<1>5. Elements(wire'[Peer(x)]) \subseteq Elements(wire[Peer(x)])
  <2>1. CASE wire'[Peer(x)] = wire[Peer(x)]
    BY <2>1
  <2>2. CASE wire'[Peer(x)] = << >>
    BY <2>2, SynFirstEmpty
  <2>3. CASE wire[Peer(x)] # << >> /\ wire'[Peer(x)] = Tail(wire[Peer(x)])
    BY <1>4, <2>3, ElementsHeadTail
  <2>. QED  BY <2>1, <2>2, <2>3 DEF Reads
<1>6. InFlight(Peer(x))' \subseteq InFlight(Peer(x))
  BY Zenon, <1>3, <1>5 DEF InFlight
<1>7. /\ ses[x].ctrl \in Seq(Frame) /\ ses[x].data \in Seq(Frame)
      /\ Extension(x, ses[x], ses[x].ctrl, q.ctrl) /\ Extension(x, ses[x], ses[x].data, q.data)
  BY <1>4, Fields DEF Reads, Good, LocalStep
<1>8. \A f \in Elements(q.ctrl) \cup Elements(q.data) :
        \/ f \in Elements(ses[x].ctrl) \cup Elements(ses[x].data)
        \/ /\ f \in Frame /\ ses[x].handle[f.sid] # "none"
           /\ f.cmd # "Syn" /\ (f.cmd = "Reject" => x = "server")
  BY <1>4, <1>7, ExtensionElements
<1>9. Alive(q) => Alive(ses[x]) /\ InFlight(x) \subseteq InFlight(x)'
  BY <1>3 DEF Reads, Good, LocalStep, Alive, InFlight
<1>10. InFlight(x)' = Elements(q.ctrl) \cup Elements(q.data) \cup Elements(wire[x])
  BY <1>3 DEF InFlight
<1>. QED  BY Zenon, <1>2, <1>3, <1>5, <1>6, <1>8, <1>9, <1>10 DEF InFlight

\* Such a step keeps unopened streams unknown.
LEMMA ReadsFresh ==
  ASSUME TypeOK, Fresh, NEW x \in Side, NEW q \in Session, Reads(x, q)
  PROVE  Fresh'
<1>1. \A z \in Side, s \in StreamId : ses'[z].handle[s] = "none" <=> ses[z].handle[s] = "none"
  <2>1. \A s \in StreamId : q.handle[s] = "none" <=> ses[x].handle[s] = "none"
    BY DEF Reads, Good, LocalStep
  <2>. QED  BY <2>1, Sides, ReadsFrames
<1>2. ASSUME NEW z \in Side, NEW f \in InFlight(z)'
      PROVE  f \in InFlight(z) \/ (ses[z].handle[f.sid] # "none" /\ f.cmd # "Syn")
  BY Sides, ReadsFrames
<1> SUFFICES ASSUME NEW s \in StreamId
             PROVE  /\ ses'["client"].handle[s] = "none"
                       => /\ \A z \in Side : \A f \in InFlight(z)' : f.sid # s
                          /\ ses'["server"].handle[s] = "none"
                    /\ ses'["server"].handle[s] # "none" => FrameOf("Syn", s) \notin InFlight("client")'
  BY DEF Fresh
<1>3. "client" \in Side /\ "server" \in Side
  BY DEF Side
<1>4. ASSUME ses'["client"].handle[s] = "none"
      PROVE  /\ \A z \in Side : \A f \in InFlight(z)' : f.sid # s
             /\ ses'["server"].handle[s] = "none"
  <2>1. /\ \A z \in Side : \A f \in InFlight(z) : f.sid # s
        /\ \A z \in Side : ses[z].handle[s] = "none"
    BY <1>1, <1>3, <1>4 DEF Fresh, Side
  <2>. QED  BY <1>1, <1>2, <1>3, <2>1
<1>5. ASSUME ses'["server"].handle[s] # "none" PROVE FrameOf("Syn", s) \notin InFlight("client")'
  <2>1. FrameOf("Syn", s) \notin InFlight("client")
    BY <1>1, <1>3, <1>5 DEF Fresh
  <2>2. FrameOf("Syn", s).cmd = "Syn"
    BY DEF FrameOf
  <2>. QED  BY <1>2, <1>3, <2>1, <2>2
<1>. QED  BY <1>4, <1>5

\* Such a step loses no FIN that someone waits for.
LEMMA ReadsFin ==
  ASSUME TypeOK, FinAfterSyn, FinSent, NEW x \in Side, NEW q \in Session, Reads(x, q),
         Alive(q) => \A f \in Elements(wire[Peer(x)]) \ Elements(wire'[Peer(x)]) : Handled(x, q, f)
  PROVE  FinAfterSyn' /\ FinSent'
<1> DEFINE y == Peer(x)
<1>1. /\ y \in Side /\ y # x /\ Peer(y) = x
      /\ \A z \in Side : z = x \/ z = y
      /\ x \in {"client", "server"} /\ (x = "client" => y = "server") /\ (x = "server" => y = "client")
  BY Sides DEF Side, Peer
<1>2. ses'[x] = q /\ ses'[y] = ses[y]
  BY ReadsFrames
<1>3. ASSUME Alive(q)
      PROVE  /\ Alive(ses[x])
             /\ InFlight(x) \subseteq InFlight(x)'
             /\ \A f \in InFlight(y) : f \in InFlight(y)' \/ Handled(x, q, f)
             /\ \A s \in StreamId : FrameOf("Syn", s) \in InFlight(x)' => FrameOf("Syn", s) \in InFlight(x)
             /\ InFlight(y)' \subseteq InFlight(y)
  <2>1. \A s \in StreamId : FrameOf("Syn", s).cmd = "Syn"
    BY DEF FrameOf
  <2>2. \A s \in StreamId : FrameOf("Syn", s) \in InFlight(x)' => FrameOf("Syn", s) \in InFlight(x)
    BY <2>1, ReadsFrames
  <2>3. \A f \in InFlight(y) : f \in InFlight(y)' \/ Handled(x, q, f)
    BY Zenon, <1>2, <1>3 DEF InFlight
  <2>. QED  BY Zenon, <1>3, <2>2, <2>3, ReadsFrames
<1>4. ASSUME Alive(q), NEW s \in StreamId
      PROVE  /\ q.active = s => ses[x].active = s /\ ses[x].flags \subseteq q.flags
             /\ Gone(x, s)' => Gone(x, s) \/ FrameOf("Fin", s) \in InFlight(x)'
  BY Zenon, <1>2, <1>4 DEF Reads, Good, LocalStep, Gone, InFlight
<1>5. \A c \in Command, s \in StreamId : FrameOf(c, s).cmd = c /\ FrameOf(c, s).sid = s
  BY Zenon DEF FrameOf
<1>6. FinAfterSyn'
  <2> SUFFICES ASSUME NEW s \in StreamId, Alive(q), Alive(ses[y]),
                      FrameOf("Syn", s) \in InFlight("client")', Gone("client", s)'
               PROVE  FrameOf("Fin", s) \in InFlight("client")'
    BY Zenon, <1>1, <1>2 DEF FinAfterSyn
  <2>1. Alive(ses["client"]) /\ Alive(ses["server"]) /\ FrameOf("Syn", s) \in InFlight("client")
    BY <1>1, <1>3
  <2>2. CASE x = "client"
    <3>1. Gone("client", s) \/ FrameOf("Fin", s) \in InFlight("client")'
      BY <1>4, <2>2
    <3>2. Gone("client", s) => FrameOf("Fin", s) \in InFlight("client")
      BY <2>1 DEF FinAfterSyn
    <3>. QED  BY Zenon, <1>3, <2>2, <3>1, <3>2
  <2>3. CASE x = "server"
    <3>1. Gone("client", s)
      BY Zenon, <1>1, <1>2, <2>3 DEF Gone
    <3>2. FrameOf("Fin", s) \in InFlight(y)
      BY Zenon, <1>1, <2>1, <2>3, <3>1 DEF FinAfterSyn
    <3>3. ~Handled(x, q, FrameOf("Fin", s))
      BY Zenon, <1>5, <2>3 DEF Handled, Command
    <3>. QED  BY Zenon, <1>1, <1>3, <2>3, <3>2, <3>3
  <2>. QED  BY Zenon, <1>1, <2>2, <2>3
<1>7. FinSent'
  <2> SUFFICES ASSUME NEW z \in Side, NEW s \in StreamId, Alive(q), Alive(ses[y]),
                      ses'[z].active = s, "remote_fin" \notin ses'[z].flags,
                      Gone(Peer(z), s)', FrameOf("Syn", s) \notin InFlight(z)'
               PROVE  \E c \in {"Fin", "Reject"} : FrameOf(c, s) \in InFlight(Peer(z))'
    BY Zenon, <1>1, <1>2 DEF FinSent
  <2>1. CASE z = x
    <3>1. ses[x].active = s /\ "remote_fin" \notin ses[x].flags
      BY Zenon, <1>2, <1>4, <2>1
    <3>2. Gone(y, s) /\ FrameOf("Syn", s) \notin InFlight(x)
      BY Zenon, <1>2, <1>3, <2>1 DEF Gone
    <3>3. PICK c \in {"Fin", "Reject"} : FrameOf(c, s) \in InFlight(y)
      BY Zenon, <1>3, <3>1, <3>2 DEF FinSent
    <3>4. ~Handled(x, q, FrameOf(c, s))
      BY <1>2, <1>5, <2>1 DEF Handled, Command
    <3>. QED  BY <1>3, <2>1, <3>3, <3>4
  <2>2. CASE z = y
    <3>1. ses[y].active = s /\ "remote_fin" \notin ses[y].flags
      BY Zenon, <1>2, <2>2
    <3>2. FrameOf("Syn", s) \notin InFlight(y)
      <4>1. ~Handled(x, q, FrameOf("Syn", s))
        BY Zenon, <1>5 DEF Handled, Command
      <4>. QED  BY Zenon, <1>3, <2>2, <4>1
    <3>3. Gone(x, s) => \E c \in {"Fin", "Reject"} : FrameOf(c, s) \in InFlight(x)
      BY Zenon, <1>1, <1>3, <3>1, <3>2 DEF FinSent
    <3>. QED  BY Zenon, <1>1, <1>3, <1>4, <2>2, <3>3
  <2>. QED  BY Zenon, <1>1, <2>1, <2>2
<1>. QED  BY <1>6, <1>7

\* Such a step keeps the order of SYNs.
LEMMA ReadsSynOrder ==
  ASSUME TypeOK, SynOrder, NEW x \in Side, NEW q \in Session, Reads(x, q)
  PROVE  SynOrder'
<1>1. /\ "client" \in Side /\ "server" \in Side /\ x \in {"client", "server"}
      /\ Peer("client") = "server" /\ Peer("server") = "client"
  BY Zenon DEF Side, Peer
<1>2. /\ ses["client"] \in Session /\ wire["client"] \in Seq(Frame)
      /\ ses["client"].ctrl \in Seq(Frame) /\ ses["client"].data \in Seq(Frame)
  BY Zenon, <1>1, Fields DEF TypeOK
<1>3. \A f \in InFlight("client")' : f.cmd # "Reject"
  BY Zenon, <1>1, ReadsFrames DEF SynOrder
<1>4. \A f \in InFlight("server")' : f.cmd # "Syn"
  BY Zenon, <1>1, ReadsFrames DEF SynOrder
<1>5. \A i \in DOMAIN ses["client"].ctrl :
        ses["client"].ctrl[i].cmd = "Syn" => NoSid(wire["client"], ses["client"].ctrl[i].sid)
  BY DEF SynOrder
<1>6. \A f \in Elements(ses["client"].ctrl) : f.cmd = "Syn" => NoSid(wire["client"], f.sid)
  BY Zenon, <1>5 DEF Elements
<1>7. SUFFICES /\ SynFirst(ses'["client"].ctrl) /\ SynFirst(wire'["client"])
               /\ \A f \in Elements(ses'["client"].ctrl) : f.cmd = "Syn" => NoSid(wire'["client"], f.sid)
               /\ \A f \in Elements(ses'["client"].data) : f.cmd # "Syn"
  BY Zenon, <1>3, <1>4 DEF SynOrder, Elements
<1>8. CASE x = "client"
  <2>1. ses'["client"] = q /\ wire'["client"] = wire["client"]
    BY Zenon, <1>8, ReadsFrames DEF Reads
  <2>2. /\ Extension("client", ses["client"], ses["client"].ctrl, q.ctrl)
        /\ Extension("client", ses["client"], ses["client"].data, q.data)
    BY Zenon, <1>8 DEF Reads, Good, LocalStep
  <2>3. /\ SynFirst(q.ctrl)
        /\ \A f \in Elements(q.ctrl) : f \in Elements(ses["client"].ctrl) \/ f.cmd # "Syn"
        /\ \A f \in Elements(q.data) : f \in Elements(ses["client"].data) \/ f.cmd # "Syn"
    BY <1>1, <1>2, <2>2, ExtensionElements DEF SynOrder
  <2>. QED  BY <1>6, <2>1, <2>3 DEF SynOrder
<1>9. CASE x = "server"
  <2>1. ses'["client"] = ses["client"]
    BY Zenon, <1>1, <1>9, ReadsFrames
  <2>2. SynFirst(wire'["client"])
    <3>1. \/ wire'["client"] \in {wire["client"], << >>}
          \/ wire["client"] # << >> /\ wire'["client"] = Tail(wire["client"])
      BY Zenon, <1>1, <1>9 DEF Reads
    <3>. QED  BY <1>2, <3>1, SynFirstEmpty, SynFirstTail DEF SynOrder
  <2>3. Elements(wire'["client"]) \subseteq Elements(wire["client"])
    BY Zenon, <1>1, <1>9, ReadsFrames
  <2>4. \A s : NoSid(wire["client"], s) => NoSid(wire'["client"], s)
    BY Zenon, <2>3, NoSidElements
  <2>. QED  BY Zenon, <1>6, <2>1, <2>2, <2>4 DEF SynOrder
<1>. QED  BY <1>1, <1>8, <1>9

\* Such a step preserves the invariant.
LEMMA ReadsInv ==
  ASSUME Inv, NEW x \in Side, NEW q \in Session, Reads(x, q),
         Alive(q) => \A f \in Elements(wire[Peer(x)]) \ Elements(wire'[Peer(x)]) : Handled(x, q, f)
  PROVE  Inv'
<1>1. AllOK'
  <2>1. SessionOK(q) /\ \A z \in Side : ses'[z] = IF z = x THEN q ELSE ses[z]
    BY DEF Reads, Good, Inv, TypeOK
  <2>. QED  BY <2>1 DEF AllOK, Inv
<1>. QED  BY Zenon, <1>1, ReadsFrames, ReadsFresh, ReadsFin, ReadsSynOrder DEF Inv

\* A step of one side alone preserves the invariant.
LEMMA LocalInv == ASSUME Inv, NEW x \in Side, Local(x) PROVE Inv'
<1>1. PICK q \in Session : /\ Good(x, ses[x], q)
                           /\ ses' = [ses EXCEPT ![x] = q] /\ wire' = wire
  BY Zenon DEF Local
<1>2. Reads(x, q)
  BY <1>1 DEF Reads, Inv, TypeOK
<1>. QED  BY <1>1, <1>2, ReadsInv

\* After its first frame is read, the transport holds no SYN for that frame's stream.
LEMMA SynGone ==
  ASSUME TypeOK, SynOrder, wire["client"] # << >>
  PROVE  LET s == Head(wire["client"]).sid IN
         FrameOf("Syn", s) \notin Elements(ses["client"].ctrl) \cup Elements(ses["client"].data)
                                  \cup Elements(Tail(wire["client"]))
<1> DEFINE h == Head(wire["client"])
           g == FrameOf("Syn", h.sid)
<1>1. /\ wire["client"] \in Seq(Frame)
  BY DEF TypeOK, Side
<1>2. h \in Elements(wire["client"])
  BY <1>1, ElementsHeadTail
<1>3. g.cmd = "Syn" /\ g.sid = h.sid
  BY DEF FrameOf
<1> HIDE DEF h, g
<1>4. g \notin Elements(Tail(wire["client"]))
  BY Zenon, <1>1, <1>3, SynFirstTail DEF SynOrder, h
<1>5. g \notin Elements(ses["client"].data)
  BY <1>3 DEF SynOrder
<1>6. g \notin Elements(ses["client"].ctrl)
  <2>1. \A f \in Elements(ses["client"].ctrl) : f.cmd = "Syn" => NoSid(wire["client"], f.sid)
    BY DEF SynOrder, Elements
  <2>. QED  BY Zenon, <1>2, <1>3, <2>1, NoSidElements
<1>. QED  BY <1>4, <1>5, <1>6 DEF g, h

\* The handler of a rejecting SYNACK ends the client's session.
LEMMA OnRejectGood ==
  ASSUME NEW r \in Session, NEW s \in StreamId, SessionOK(r)
  PROVE  Good("client", r, OnReject("client", r, s)) /\ ~Alive(OnReject("client", r, s))
<1>1. OnReject("client", r, s) = Shutdown(r) /\ Shutdown(r).closed
  BY DEF OnReject, Shutdown, Session
<1>. QED  BY <1>1, ShutdownGood DEF Alive, Side

\* receive_loop handles a frame other than a SYN, or ends.
LEMMA ReceiveInv ==
  ASSUME Inv, NEW x \in Side,
         \/ Receive(x) /\ (x = "client" \/ Head(wire[Peer(x)]).cmd # "Syn")
         \/ ReceiveEnd(x)
  PROVE  Inv'
<1> DEFINE r == ses[x]
           y == Peer(x)
           h == Head(wire[y])
<1>1. /\ r \in Session /\ SessionOK(r) /\ y \in Side /\ y # x /\ wire[y] \in Seq(Frame)
      /\ x \in {"client", "server"} /\ (x = "client" => y = "server") /\ (x = "server" => y = "client")
  BY Sides DEF Inv, TypeOK, AllOK, Side, Peer
<1>2. CASE Receive(x) /\ (x = "client" \/ h.cmd # "Syn")
  <2> DEFINE q == OnFrame(x, r, h)
             w == IF q.rx = "end" THEN << >> ELSE Tail(wire[y])
  <2>1. /\ wire[y] # << >> /\ ses' = [ses EXCEPT ![x] = q] /\ wire' = [wire EXCEPT ![y] = w]
    BY <1>2 DEF Receive, SetReading, Set
  <2>2. /\ h \in Frame /\ Tail(wire[y]) \in Seq(Frame)
        /\ h \in Elements(wire[y]) /\ Elements(wire[y]) = {h} \cup Elements(Tail(wire[y]))
    BY Zenon, <1>1, <2>1, ElementsHeadTail
  <2>3. h.cmd \in Command /\ h.sid \in StreamId
    BY <2>2 DEF Frame
  <2>4. h \in InFlight(y)
    BY Zenon, <2>2 DEF InFlight
  <2>5. h.cmd # "Syn" /\ (h.cmd = "Reject" => x = "client")
    BY <1>1, <1>2, <2>4 DEF Inv, SynOrder
  <2> HIDE DEF h, r
  <2>6. /\ h.cmd = "Push" => q = OnPush(r, h.sid)
        /\ h.cmd = "Fin" => q = OnFin(r, h.sid)
        /\ h.cmd = "Reject" => q = OnReject(x, r, h.sid)
    BY Zenon, <2>5 DEF OnFrame
  <2>7. /\ Good(x, r, q)
        /\ h.cmd = "Fin" /\ q.active = h.sid => "remote_fin" \in q.flags
        /\ h.cmd = "Reject" => ~Alive(q)
    BY Zenon, <1>1, <2>3, <2>5, <2>6, OnPushGood, OnFinGood, OnRejectGood DEF Command
  <2> HIDE DEF q
  <2>8. q \in Session /\ w \in Seq(Frame)
    BY <2>2, <2>7 DEF Good
  <2>9. wire'[y] = w /\ wire'[x] = wire[x] /\ wire' \in [Side -> Seq(Frame)] /\ ses'[y] = ses[y]
    BY Zenon, <1>1, <2>1, <2>8 DEF Inv, TypeOK
  <2>10. Reads(x, q)
    BY Zenon, <2>1, <2>7, <2>9 DEF Reads, r
  <2>11. ASSUME Alive(q), NEW f \in Elements(wire[y]) \ Elements(wire'[y])
         PROVE  Handled(x, q, f)
    <3>1. q.rx # "end"
      BY Zenon, <2>7, <2>11 DEF Good, SessionOK, Alive
    <3>2. f = h
      BY Zenon, <2>2, <2>9, <2>11, <3>1
    <3>3. h.cmd \in {"Push", "Fin"}
      BY Zenon, <2>3, <2>5, <2>7, <2>11 DEF Command
    <3>4. x = "server" => FrameOf("Syn", h.sid) \notin InFlight("client")'
      BY Zenon, <1>1, <2>1, <2>9, <3>1, SynGone DEF Inv, InFlight, h
    <3>. QED  BY Zenon, <2>7, <3>2, <3>3, <3>4 DEF Handled
  <2>. QED  BY Zenon, <2>8, <2>10, <2>11, ReadsInv
<1>3. CASE ReceiveEnd(x)
  <2> DEFINE q == EndReceive(r)
  <2>1. /\ q.rx = "end" /\ q.closed /\ Good(x, r, q) /\ q \in Session
    BY Zenon, <1>1, EndReceiveEffect, EndReceiveGood, EndReceiveType
  <2>2. ses' = [ses EXCEPT ![x] = q] /\ wire' = [wire EXCEPT ![y] = << >>]
    BY <1>3, <2>1 DEF ReceiveEnd, SetReading, Set
  <2> HIDE DEF q
  <2>3. wire'[y] = << >> /\ wire'[x] = wire[x] /\ wire' \in [Side -> Seq(Frame)]
    <3>1. << >> \in Seq(Frame)
      OBVIOUS
    <3>. QED  BY <1>1, <2>2, <3>1 DEF Inv, TypeOK
  <2>4. Reads(x, q)
    BY Zenon, <2>1, <2>2, <2>3 DEF Reads
  <2>. QED  BY Zenon, <2>1, <2>4, ReadsInv DEF Alive
<1>. QED  BY <1>2, <1>3

-----------------------------------------------------------------------------
(* The writer.                                                             *)

\* From r to q, only the queues and the writer may change, and where a call that
\* waited for the writer's result stands.
Answered(r, q, result) ==
  /\ q.handle = r.handle /\ q.rx = r.rx /\ q.pumping = r.pumping
  /\ q.closed = r.closed /\ q.drain = r.drain /\ q.active = r.active /\ q.flags = r.flags
  /\ \A s \in StreamId :
       \/ q.task[s] = r.task[s]
       \/ /\ r.task[s].pc = "wait" /\ q.task[s].pc = result
          /\ q.task[s].call = r.task[s].call /\ q.task[s].flag = r.task[s].flag

\* The writer's answer changes nothing but where the waiting call stands.
LEMMA CompleteEffect ==
  ASSUME NEW r \in Session, NEW f \in Frame, NEW result \in {"ok", "err"}
  PROVE  LET q == Complete(r, f, result) IN
         /\ q \in Session /\ Answered(r, q, result)
         /\ q.ctrl = r.ctrl /\ q.data = r.data /\ q.writer = r.writer
<1> DEFINE t == [r.task[f.sid] EXCEPT !.pc = result]
           e == [r EXCEPT !.task[f.sid] = t]
<1>1. f.sid \in StreamId
  BY DEF Frame
<1>2. r.task[f.sid] \in Task
  BY <1>1, Fields
<1>3. /\ t \in Task /\ t.pc = result
      /\ t.call = r.task[f.sid].call /\ t.flag = r.task[f.sid].flag
  BY Zenon, <1>2 DEF Task
<1>4. \/ Complete(r, f, result) = r
      \/ r.task[f.sid].pc = "wait" /\ Complete(r, f, result) = e
  BY <1>1 DEF Complete, Session
<1> HIDE DEF t
<1>5. e \in Session
  BY Zenon, <1>1, <1>3, TaskType
<1>6. /\ e.ctrl = r.ctrl /\ e.data = r.data /\ e.handle = r.handle /\ e.writer = r.writer
      /\ e.rx = r.rx /\ e.pumping = r.pumping /\ e.closed = r.closed /\ e.drain = r.drain
      /\ e.active = r.active /\ e.flags = r.flags
      /\ e.task[f.sid] = t /\ \A s \in StreamId \ {f.sid} : e.task[s] = r.task[s]
  BY <1>1, <1>5 DEF Session
<1> HIDE DEF e
<1>7. Answered(r, r, result) /\ (r.task[f.sid].pc = "wait" => Answered(r, e, result))
  BY Zenon, <1>3, <1>6 DEF Answered
<1>. QED  BY <1>4, <1>5, <1>6, <1>7

\* The writer takes the head of the control queue, or of the data queue when there is none.
LEMMA TakeEffect ==
  ASSUME NEW r \in Session, NEW result \in {"ok", "err"}, CanWrite(r)
  PROVE  LET q == TakeRequest(r, result) IN
         /\ q \in Session /\ NextRequest(r) \in Frame
         /\ \/ /\ r.ctrl # << >> /\ NextRequest(r) = Head(r.ctrl)
               /\ q.ctrl = Tail(r.ctrl) /\ q.data = r.data
            \/ /\ r.ctrl = << >> /\ r.data # << >> /\ NextRequest(r) = Head(r.data)
               /\ q.ctrl = r.ctrl /\ q.data = Tail(r.data)
         /\ q.writer = r.writer /\ Answered(r, q, result)
<1>1. r.ctrl \in Seq(Frame) /\ r.data \in Seq(Frame) /\ (r.ctrl = << >> => r.data # << >>)
  BY Zenon, Fields DEF CanWrite
<1>2. CASE r.ctrl # << >>
  <2> DEFINE c == Tail(r.ctrl)
             h == Head(r.ctrl)
             e == [r EXCEPT !.ctrl = c]
  <2>1. c \in Seq(Frame) /\ h \in Frame
    BY <1>1, <1>2, ElementsHeadTail
  <2>2. /\ NextRequest(r) = h
        /\ TakeRequest(r, result) = e \/ TakeRequest(r, result) = Complete(e, h, result)
    BY <1>2 DEF NextRequest, TakeRequest
  <2> HIDE DEF c, h
  <2>3. e \in Session
    BY <2>1, CtrlType
  <2>4. /\ e.ctrl = c /\ e.data = r.data /\ e.handle = r.handle /\ e.writer = r.writer
        /\ e.rx = r.rx /\ e.pumping = r.pumping /\ e.closed = r.closed /\ e.drain = r.drain
        /\ e.active = r.active /\ e.flags = r.flags /\ e.task = r.task
    BY Zenon, <2>3 DEF Session
  <2> HIDE DEF e
  <2>5. CASE TakeRequest(r, result) = e
    <3>1. Answered(r, e, result)
      BY Zenon, <2>4 DEF Answered
    <3>. QED  BY Zenon, <1>2, <2>1, <2>2, <2>3, <2>4, <2>5, <3>1 DEF c, h
  <2>6. CASE TakeRequest(r, result) = Complete(e, h, result)
    <3> DEFINE q == Complete(e, h, result)
    <3>1. /\ q \in Session /\ Answered(e, q, result)
          /\ q.ctrl = e.ctrl /\ q.data = e.data /\ q.writer = e.writer
      BY Zenon, <2>1, <2>3, CompleteEffect
    <3> HIDE DEF q
    <3>2. Answered(r, q, result)
      BY <2>4, <3>1 DEF Answered
    <3>3. TakeRequest(r, result) = q
      BY Zenon, <2>6 DEF q
    <3>. QED  BY Zenon, <1>2, <2>1, <2>2, <2>4, <3>1, <3>2, <3>3 DEF c, h
  <2>. QED  BY <2>2, <2>5, <2>6
<1>3. CASE r.ctrl = << >>
  <2> DEFINE d == Tail(r.data)
             h == Head(r.data)
             e == [r EXCEPT !.data = d]
             q == Complete(e, h, result)
  <2>1. d \in Seq(Frame) /\ h \in Frame
    BY <1>1, <1>3, ElementsHeadTail
  <2>2. NextRequest(r) = h /\ TakeRequest(r, result) = q
    BY <1>3 DEF NextRequest, TakeRequest
  <2> HIDE DEF d, h
  <2>3. e \in Session
    BY <2>1, DataType
  <2>4. /\ e.ctrl = r.ctrl /\ e.data = d /\ e.handle = r.handle /\ e.writer = r.writer
        /\ e.rx = r.rx /\ e.pumping = r.pumping /\ e.closed = r.closed /\ e.drain = r.drain
        /\ e.active = r.active /\ e.flags = r.flags /\ e.task = r.task
    BY <2>3 DEF Session
  <2> HIDE DEF e
  <2>5. /\ q \in Session /\ Answered(e, q, result)
        /\ q.ctrl = e.ctrl /\ q.data = e.data /\ q.writer = e.writer
    BY Zenon, <2>1, <2>3, CompleteEffect
  <2> HIDE DEF q
  <2>6. Answered(r, q, result)
    BY Zenon, <2>4, <2>5 DEF Answered
  <2>. QED  BY Zenon, <1>1, <1>3, <2>1, <2>2, <2>4, <2>5, <2>6 DEF d, h
<1>. QED  BY <1>2, <1>3

\* The answer of the writer changes nothing the invariant of a session relies on.
LEMMA AnswerOK ==
  ASSUME NEW r \in Session, NEW q \in Session, NEW result \in {"ok", "err"}, SessionOK(r),
         Answered(r, q, result), (q.writer = r.writer /\ result = "ok") \/ q.writer = "failing"
  PROVE  SessionOK(q)
<1>1. NoTask.pc # "wait"
  BY Zenon DEF NoTask, TaskOf
<1>2. ASSUME NEW s \in StreamId
      PROVE  /\ q.active = s /\ "read_closed" \in q.flags => s \notin q.pumping
             /\ Alive(q) /\ q.active = s /\ q.flags = Flag => FinishDue(q, s)
             /\ q.active = s /\ PastFin(q.task[s]) => "local_fin" \in q.flags
             /\ q.task[s].call = "open" /\ q.task[s].pc = "err" => ~Alive(q)
             /\ q.handle[s] = "none" => q.active # s /\ q.task[s] = NoTask
  <2>1. CASE q.task[s] = r.task[s]
    BY <2>1 DEF Answered, SessionOK, Alive, FinishDue
  <2>2. CASE /\ r.task[s].pc = "wait" /\ q.task[s].pc = result
             /\ q.task[s].call = r.task[s].call /\ q.task[s].flag = r.task[s].flag
    BY <1>1, <2>2 DEF Answered, SessionOK, Alive, FinishDue, PastFin
  <2>. QED  BY Zenon, <2>1, <2>2 DEF Answered
<1>. QED  BY <1>2 DEF Answered, SessionOK

\* A failed write loses its frame on a session that has ended.
LEMMA WriteFailLocal == ASSUME TypeOK, AllOK, NEW x \in Side, WriteFail(x) PROVE Local(x)
<1> DEFINE r == ses[x]
           e == TakeRequest(r, "err")
           q == [e EXCEPT !.writer = "failing"]
<1>1. r \in Session /\ SessionOK(r) /\ CanWrite(r)
  BY DEF TypeOK, AllOK, WriteFail
<1>2. ses' = [ses EXCEPT ![x] = q] /\ wire' = wire
  BY Zenon DEF WriteFail, Set
<1> HIDE DEF r
<1>3. /\ e \in Session /\ Answered(r, e, "err")
      /\ Extension(x, r, r.ctrl, e.ctrl) /\ Extension(x, r, r.data, e.data)
  BY <1>1, TakeEffect DEF Extension
<1> HIDE DEF e
<1>4. /\ q \in Session /\ q.writer = "failing" /\ q.ctrl = e.ctrl /\ q.data = e.data
      /\ q.handle = e.handle /\ q.rx = e.rx /\ q.pumping = e.pumping /\ q.closed = e.closed
      /\ q.drain = e.drain /\ q.active = e.active /\ q.flags = e.flags /\ q.task = e.task
  BY Zenon, <1>3 DEF Session
<1> HIDE DEF q
<1>5. Answered(r, q, "err")
  BY <1>3, <1>4 DEF Answered
<1>6. SessionOK(q)
  BY Zenon, <1>1, <1>4, <1>5, AnswerOK
<1>7. LocalStep(x, r, q)
  BY <1>3, <1>4, <1>5 DEF LocalStep, Alive, Answered
<1>. QED  BY Zenon, <1>2, <1>4, <1>6, <1>7 DEF Local, Good, r

\* A frame goes from a queue to the transport, or is lost when nobody reads it.
LEMMA WriteInv == ASSUME Inv, NEW x \in Side, Write(x) PROVE Inv'
<1> DEFINE r == ses[x]
           y == Peer(x)
           f == NextRequest(r)
           q == TakeRequest(r, "ok")
<1>1. /\ r \in Session /\ SessionOK(r) /\ CanWrite(r) /\ wire[x] \in Seq(Frame)
      /\ r.ctrl \in Seq(Frame) /\ r.data \in Seq(Frame)
  BY Fields DEF Inv, TypeOK, AllOK, Write
<1>2. /\ y \in Side /\ y # x /\ Peer(y) = x /\ \A z \in Side : z = x \/ z = y
  BY Sides
<1>3. /\ ses' = [ses EXCEPT ![x] = q]
      /\ wire' = IF ses[y].rx = "end" THEN wire ELSE [wire EXCEPT ![x] = Append(@, f)]
  BY Zenon DEF Write, Set
<1>4. /\ q \in Session /\ f \in Frame
      /\ \/ r.ctrl # << >> /\ f = Head(r.ctrl) /\ q.ctrl = Tail(r.ctrl) /\ q.data = r.data
         \/ /\ r.ctrl = << >> /\ r.data # << >> /\ f = Head(r.data)
            /\ q.ctrl = r.ctrl /\ q.data = Tail(r.data)
      /\ q.writer = r.writer /\ Answered(r, q, "ok")
  BY Zenon, <1>1, TakeEffect
<1> HIDE DEF f, q, r
<1>5. SessionOK(q)
  BY Zenon, <1>1, <1>4, AnswerOK
<1>6. /\ ses'[x] = q /\ ses'[y] = ses[y] /\ ses' \in [Side -> Session] /\ wire'[y] = wire[y]
      /\ \/ ses[y].rx = "end" /\ wire'[x] = wire[x]
         \/ wire'[x] = Append(wire[x], f)
      /\ wire' \in [Side -> Seq(Frame)]
  <2>1. Append(wire[x], f) \in Seq(Frame)
    BY <1>1, <1>4
  <2>. QED  BY <1>2, <1>3, <1>4, <2>1 DEF Inv, TypeOK
<1>7. TypeOK' /\ AllOK'
  BY Zenon, <1>2, <1>5, <1>6 DEF TypeOK, AllOK, Inv
<1>8. /\ Elements(r.ctrl) \cup Elements(r.data) = {f} \cup Elements(q.ctrl) \cup Elements(q.data)
      /\ Elements(q.ctrl) \subseteq Elements(r.ctrl)
      /\ Elements(q.data) \subseteq Elements(r.data)
  BY Zenon, <1>1, <1>4, ElementsHeadTail
<1>9. /\ InFlight(x)' \subseteq InFlight(x) /\ InFlight(y)' = InFlight(y)
      /\ InFlight(x)' = InFlight(x) \/ ses[y].rx = "end"
  <2>1. Elements(Append(wire[x], f)) = Elements(wire[x]) \cup {f}
    BY Zenon, <1>1, <1>4, ElementsAppend
  <2>. QED  BY Zenon, <1>6, <1>8, <2>1 DEF InFlight, r
<1>10. \A z \in Side : /\ ses'[z].active = ses[z].active /\ ses'[z].flags = ses[z].flags
                       /\ ses'[z].handle = ses[z].handle
                       /\ Alive(ses'[z]) <=> Alive(ses[z])
  <2>1. /\ ses'[x].active = ses[x].active /\ ses'[x].flags = ses[x].flags
        /\ ses'[x].handle = ses[x].handle
        /\ ses'[x].closed = ses[x].closed /\ ses'[x].writer = ses[x].writer
    BY Zenon, <1>4, <1>6 DEF Answered, r
  <2>2. Alive(ses'[x]) <=> Alive(ses[x])
    BY Zenon, <2>1 DEF Alive
  <2>. QED  BY Zenon, <1>2, <1>6, <2>1, <2>2
<1>11. \A z \in Side : InFlight(z)' \subseteq InFlight(z)
  BY Zenon, <1>2, <1>9
<1>12. (\A z \in Side : Alive(ses[z])) => \A z \in Side : InFlight(z)' = InFlight(z)
  <2>1. Alive(ses[y]) => ses[y].rx # "end"
    BY Zenon, <1>2 DEF Inv, AllOK, SessionOK, Alive
  <2>. QED  BY Zenon, <1>2, <1>9, <2>1
<1>13. Fresh'
  <2> SUFFICES ASSUME NEW s \in StreamId
               PROVE  /\ ses'["client"].handle[s] = "none"
                         => /\ \A z \in Side : \A g \in InFlight(z)' : g.sid # s
                            /\ ses'["server"].handle[s] = "none"
                      /\ ses'["server"].handle[s] # "none"
                         => FrameOf("Syn", s) \notin InFlight("client")'
    BY DEF Fresh
  <2>. QED  BY Zenon, <1>10, <1>11, Sides DEF Fresh, Inv, Side
<1>14. FinAfterSyn' /\ FinSent'
  <2>1. \A z \in Side, s \in StreamId : Gone(z, s)' <=> Gone(z, s)
    BY Zenon, <1>10 DEF Gone
  <2>2. FinAfterSyn'
    <3> SUFFICES ASSUME NEW s \in StreamId, Alive(ses'["client"]), Alive(ses'["server"]),
                        FrameOf("Syn", s) \in InFlight("client")', Gone("client", s)'
                 PROVE  FrameOf("Fin", s) \in InFlight("client")'
      BY Zenon DEF FinAfterSyn
    <3>1. /\ "client" \in Side /\ "server" \in Side
          /\ \A z \in Side : Alive(ses[z])
      BY Zenon, <1>10 DEF Side
    <3>. QED  BY <1>12, <2>1, <3>1 DEF FinAfterSyn, Inv
  <2>3. FinSent'
    <3> SUFFICES ASSUME NEW z \in Side, NEW s \in StreamId, Alive(ses'[z]), Alive(ses'[Peer(z)]),
                        ses'[z].active = s, "remote_fin" \notin ses'[z].flags,
                        Gone(Peer(z), s)', FrameOf("Syn", s) \notin InFlight(z)'
                 PROVE  \E c \in {"Fin", "Reject"} : FrameOf(c, s) \in InFlight(Peer(z))'
      BY Zenon DEF FinSent
    <3>1. Peer(z) \in Side /\ \A v \in Side : Alive(ses[v])
      BY <1>10, Sides
    <3>. QED  BY Zenon, <1>10, <1>12, <2>1, <3>1 DEF FinSent, Inv
  <2>. QED  BY Zenon, <2>2, <2>3
<1>15. SynOrder'
  <2>1. /\ \A g \in InFlight("client")' : g.cmd # "Reject"
        /\ \A g \in InFlight("server")' : g.cmd # "Syn"
    BY Zenon, <1>11 DEF SynOrder, Inv, Side
  <2>2. CASE x = "server"
    <3>1. y = "client"
      BY Zenon, <2>2 DEF Peer
    <3>. QED  BY Zenon, <1>6, <2>1, <3>1 DEF SynOrder, Inv
  <2>3. CASE x = "client"
    <3> DEFINE w == wire["client"]
    <3>1. /\ SynFirst(r.ctrl) /\ SynFirst(w) /\ \A g \in Elements(r.data) : g.cmd # "Syn"
          /\ \A g \in Elements(r.ctrl) : g.cmd = "Syn" => NoSid(w, g.sid)
      BY Zenon, <2>3 DEF SynOrder, Inv, Elements, r
    <3>2. SUFFICES /\ SynFirst(q.ctrl) /\ SynFirst(wire'["client"])
                   /\ \A g \in Elements(q.ctrl) : g.cmd = "Syn" => NoSid(wire'["client"], g.sid)
                   /\ \A g \in Elements(q.data) : g.cmd # "Syn"
      BY Zenon, <1>6, <2>1, <2>3 DEF SynOrder, Elements
    <3>3. SynFirst(q.ctrl) /\ \A g \in Elements(q.data) : g.cmd # "Syn"
      <4>1. \A g \in Elements(q.data) : g.cmd # "Syn"
        BY Zenon, <1>8, <3>1
      <4>2. CASE q.ctrl = r.ctrl
        BY Zenon, <3>1, <4>1, <4>2
      <4>3. CASE r.ctrl # << >> /\ q.ctrl = Tail(r.ctrl)
        BY Zenon, <1>1, <3>1, <4>1, <4>3, SynFirstTail
      <4>. QED  BY Zenon, <1>4, <4>2, <4>3
    <3>4. f.cmd = "Syn" => NoSid(w, f.sid)
      <4>1. CASE r.ctrl # << >> /\ f = Head(r.ctrl)
        BY Zenon, <1>1, <3>1, <4>1, ElementsHeadTail
      <4>2. CASE r.data # << >> /\ f = Head(r.data)
        BY Zenon, <1>1, <3>1, <4>2, ElementsHeadTail
      <4>. QED  BY <1>4, <4>1, <4>2
    <3>5. SynFirst(wire'["client"])
      BY Zenon, <1>1, <1>4, <1>6, <2>3, <3>1, <3>4, SynFirstAppend
    <3>6. ASSUME NEW g \in Elements(q.ctrl), g.cmd = "Syn" PROVE NoSid(wire'["client"], g.sid)
      <4>1. NoSid(w, g.sid)
        BY Zenon, <1>8, <3>1, <3>6
      <4>2. f.sid # g.sid
        <5>1. CASE r.ctrl # << >> /\ f = Head(r.ctrl) /\ q.ctrl = Tail(r.ctrl)
          BY Zenon, <1>1, <3>1, <3>6, <5>1, SynFirstTail
        <5>2. CASE r.ctrl = << >> /\ q.ctrl = r.ctrl
          BY <3>6, <5>2, SynFirstEmpty
        <5>. QED  BY Zenon, <1>4, <5>1, <5>2
      <4>3. Elements(wire'["client"]) \subseteq Elements(w) \cup {f}
        <5>1. Elements(Append(w, f)) = Elements(w) \cup {f}
          BY Zenon, <1>1, <1>4, <2>3, ElementsAppend
        <5>. QED  BY Zenon, <1>6, <2>3, <5>1
      <4>. QED  BY Zenon, <4>1, <4>2, <4>3, NoSidElements
    <3>. QED  BY Zenon, <3>3, <3>5, <3>6
  <2>. QED  BY Zenon, <2>2, <2>3 DEF Side
<1>. QED  BY Zenon, <1>7, <1>13, <1>14, <1>15 DEF Inv

-----------------------------------------------------------------------------
(* A stream comes to life, and the theorems.                               *)

\* create_stream takes a stream id that is in use nowhere.
LEMMA OpenInv == ASSUME Inv, NEW s \in StreamId, Open(s) PROVE Inv'
<1> DEFINE r == ses["client"]
           f == FrameOf("Syn", s)
           t == TaskOf("open", "wait", FALSE)
           c == Append(r.ctrl, f)
           q == [r EXCEPT !.active = s, !.flags = {}, !.pumping = @ \cup {s}, !.handle[s] = "opening",
                          !.idle = FALSE, !.ctrl = c, !.task[s] = t]
<1>1. /\ "client" \in Side /\ "server" \in Side /\ Peer("client") = "server"
      /\ Peer("server") = "client" /\ \A z \in Side : z \in {"client", "server"}
  BY DEF Side, Peer
<1>2. /\ r \in Session /\ SessionOK(r) /\ wire["client"] \in Seq(Frame)
      /\ r.ctrl \in Seq(Frame) /\ r.data \in Seq(Frame)
  BY Zenon, <1>1, Fields DEF Inv, TypeOK, AllOK
<1>3. /\ r.handle[s] = "none" /\ ~r.closed /\ r.active = None
      /\ wire' = wire /\ ses' = [ses EXCEPT !["client"] = q]
  BY Zenon, <1>2 DEF Open, Insert, Set, Session
<1>4. /\ f \in Frame /\ f.cmd = "Syn" /\ f.sid = s /\ c \in Seq(Frame)
      /\ t \in Task /\ t.call = "open" /\ t.pc = "wait" /\ t.flag = FALSE
  <2>1. f \in Frame /\ f.cmd = "Syn" /\ f.sid = s
    BY DEF FrameOf, Frame, Command
  <2>. QED  BY <1>2, <2>1 DEF TaskOf, Task
<1> HIDE DEF c, t, f, r
<1>5. /\ q \in Session
      /\ q.active = s /\ q.flags = {} /\ q.pumping = r.pumping \cup {s} /\ q.ctrl = c
      /\ q.data = r.data /\ q.writer = r.writer /\ q.rx = r.rx /\ q.closed = r.closed
      /\ q.drain = r.drain /\ q.task[s] = t /\ q.handle[s] = "opening"
      /\ \A u \in StreamId \ {s} : q.task[u] = r.task[u] /\ q.handle[u] = r.handle[u]
  <2>1. [r EXCEPT !.ctrl = c] \in Session
    BY <1>2, <1>4, CtrlType
  <2> DEFINE e == [r EXCEPT !.ctrl = c]
             d == [e EXCEPT !.task[s] = t]
  <2>2. /\ e \in Session /\ e.ctrl = c /\ e.active = r.active /\ e.flags = r.flags
        /\ e.pumping = r.pumping /\ e.task = r.task /\ e.handle = r.handle
        /\ e.data = r.data /\ e.writer = r.writer /\ e.rx = r.rx
        /\ e.closed = r.closed /\ e.drain = r.drain
    BY Zenon, <1>2, <2>1 DEF Session
  <2>3. q = [d EXCEPT !.active = s, !.flags = {}, !.pumping = @ \cup {s},
                      !.handle[s] = "opening", !.idle = FALSE]
    BY <1>2, ZenonT(60) DEF Session
  <2> HIDE DEF e
  <2>4. d \in Session
    BY <1>4, <2>2, TaskType
  <2>5. /\ d.ctrl = c /\ d.pumping = r.pumping /\ d.handle = r.handle
        /\ d.data = r.data /\ d.writer = r.writer /\ d.rx = r.rx
        /\ d.closed = r.closed /\ d.drain = r.drain
        /\ d.task[s] = t /\ \A u \in StreamId \ {s} : d.task[u] = r.task[u]
    BY <2>2, <2>4 DEF Session
  <2> HIDE DEF d, q
  <2>6. q \in Session
    BY ZenonT(30), <2>3, <2>4 DEF Session
  <2>. QED  BY <2>3, <2>4, <2>5, <2>6 DEF Session
<1> HIDE DEF q
<1>6. SessionOK(q)
  <2>1. ASSUME NEW u \in StreamId
        PROVE  /\ q.active = u /\ "read_closed" \in q.flags => u \notin q.pumping
               /\ Alive(q) /\ q.active = u /\ q.flags = Flag => FinishDue(q, u)
               /\ q.active = u /\ PastFin(q.task[u]) => "local_fin" \in q.flags
               /\ q.task[u].call = "open" /\ q.task[u].pc = "err" => ~Alive(q)
               /\ q.handle[u] = "none" => q.active # u /\ q.task[u] = NoTask
    <3>1. Flag # {}
      BY Zenon DEF Flag
    <3>2. CASE u = s
      BY Zenon, <1>4, <1>5, <3>1, <3>2 DEF PastFin
    <3>3. CASE u # s
      BY <1>2, <1>5, <3>3 DEF SessionOK, Alive
    <3>. QED  BY <3>2, <3>3
  <2>. QED  BY Zenon, <1>2, <1>3, <1>5, <2>1 DEF SessionOK
<1>7. /\ ses'["client"] = q /\ ses'["server"] = ses["server"]
      /\ TypeOK' /\ AllOK'
  BY Zenon, <1>1, <1>3, <1>5, <1>6 DEF Inv, TypeOK, AllOK
<1>8. /\ InFlight("client")' = InFlight("client") \cup {f}
      /\ InFlight("server")' = InFlight("server")
      /\ Elements(c) = Elements(r.ctrl) \cup {f}
  <2>1. Elements(c) = Elements(r.ctrl) \cup {f}
    BY <1>2, <1>4, ElementsAppend DEF c
  <2>. QED  BY <1>3, <1>5, <1>7, <2>1 DEF InFlight, r
<1>9. /\ \A z \in Side : \A g \in InFlight(z) : g.sid # s
      /\ ses["server"].handle[s] = "none"
  BY Zenon, <1>3 DEF Inv, Fresh, r
<1>10. ses["server"].active # s
  BY Zenon, <1>1, <1>9 DEF Inv, AllOK, SessionOK
<1>11. Fresh'
  <2> SUFFICES ASSUME NEW u \in StreamId
               PROVE  /\ q.handle[u] = "none"
                         => /\ \A z \in Side : \A g \in InFlight(z)' : g.sid # u
                            /\ ses["server"].handle[u] = "none"
                      /\ ses["server"].handle[u] # "none" => FrameOf("Syn", u) \notin InFlight("client")'
    BY Zenon, <1>7 DEF Fresh
  <2>1. CASE u = s
    BY Zenon, <1>5, <1>9, <2>1
  <2>2. CASE u # s
    <3>1. FrameOf("Syn", u) # f
      BY <1>4, <2>2 DEF FrameOf
    <3>2. ASSUME q.handle[u] = "none", NEW z \in Side, NEW g \in InFlight(z)' PROVE g.sid # u
      <4>1. r.handle[u] = "none"
        BY Zenon, <1>5, <2>2, <3>2
      <4>2. g \in InFlight(z) \/ g = f
        BY Zenon, <1>1, <1>8
      <4>. QED  BY Zenon, <1>4, <2>2, <4>1, <4>2 DEF Inv, Fresh, r
    <3>. QED  BY Zenon, <1>5, <1>8, <2>2, <3>1, <3>2 DEF Inv, Fresh, r
  <2>. QED  BY Zenon, <2>1, <2>2
<1>12. SynOrder'
  <2>1. /\ SynFirst(r.ctrl) /\ SynFirst(wire["client"])
        /\ \A g \in Elements(r.ctrl) : g.cmd = "Syn" => NoSid(wire["client"], g.sid)
        /\ \A g \in Elements(r.data) : g.cmd # "Syn"
    BY Zenon DEF Inv, SynOrder, Elements, r
  <2>2. NoSid(wire["client"], s) /\ NoSid(r.ctrl, s)
    BY Zenon, <1>1, <1>9, NoSidElements DEF InFlight, r
  <2>3. SynFirst(c)
    BY Zenon, <1>2, <1>4, <2>1, <2>2, SynFirstAppend DEF c
  <2>4. \A g \in Elements(c) : g.cmd = "Syn" => NoSid(wire["client"], g.sid)
    BY Zenon, <1>4, <1>8, <2>1, <2>2
  <2>5. /\ \A g \in InFlight("client")' : g.cmd # "Reject"
        /\ \A g \in InFlight("server")' : g.cmd # "Syn"
    BY Zenon, <1>4, <1>8 DEF Inv, SynOrder
  <2>6. \A i \in DOMAIN c : c[i].cmd = "Syn" => NoSid(wire["client"], c[i].sid)
    BY <2>4 DEF Elements
  <2>. QED  BY <1>3, <1>5, <1>7, <2>1, <2>3, <2>5, <2>6 DEF SynOrder
<1>13. Alive(q) => Alive(r)
  BY Zenon, <1>5 DEF Alive
<1>14. FinAfterSyn'
  <2> SUFFICES ASSUME NEW u \in StreamId, Alive(q), Alive(ses["server"]),
                      FrameOf("Syn", u) \in InFlight("client")', Gone("client", u)'
               PROVE  FrameOf("Fin", u) \in InFlight("client")'
    BY Zenon, <1>7 DEF FinAfterSyn
  <2>1. u # s
    BY Zenon, <1>5, <1>7 DEF Gone
  <2>2. FrameOf("Syn", u) \in InFlight("client")
    BY <1>4, <1>8, <2>1 DEF FrameOf
  <2>3. Gone("client", u)
    BY <1>3, <2>1 DEF Gone, r, None, StreamId
  <2>. QED  BY <1>8, <1>13, <2>2, <2>3 DEF Inv, FinAfterSyn, r
<1>15. FinSent'
  <2> SUFFICES ASSUME NEW z \in Side, NEW u \in StreamId, Alive(q), Alive(ses["server"]),
                      ses'[z].active = u, "remote_fin" \notin ses'[z].flags,
                      Gone(Peer(z), u)', FrameOf("Syn", u) \notin InFlight(z)'
               PROVE  \E d \in {"Fin", "Reject"} : FrameOf(d, u) \in InFlight(Peer(z))'
    <3>1. \A z \in Side : Alive(ses'[z]) /\ Alive(ses'[Peer(z)]) => Alive(q) /\ Alive(ses["server"])
      BY Zenon, <1>1, <1>7
    <3>. QED  BY Zenon, <3>1 DEF FinSent
  <2>1. CASE z = "client"
    <3>1. u = s
      BY Zenon, <1>5, <1>7, <2>1
    <3>. QED  BY Zenon, <1>8, <2>1, <3>1 DEF f
  <2>2. CASE z = "server"
    <3>1. u # s /\ ses["server"].active = u /\ "remote_fin" \notin ses["server"].flags
      BY Zenon, <1>7, <1>10, <2>2
    <3>2. Gone("client", u)
      BY <1>3, <3>1 DEF Gone, r, None, StreamId
    <3>3. \E d \in {"Fin", "Reject"} : FrameOf(d, u) \in InFlight("client")
      BY Zenon, <1>1, <1>8, <1>13, <2>2, <3>1, <3>2 DEF Inv, FinSent, r
    <3>. QED  BY Zenon, <1>1, <1>8, <2>2, <3>3
  <2>. QED  BY Zenon, <1>1, <2>1, <2>2
<1>. QED  BY Zenon, <1>7, <1>11, <1>12, <1>14, <1>15 DEF Inv

-----------------------------------------------------------------------------
(* on_receive_syn_cmd                                                      *)

\* The SYN of a new stream was rejected, or has taken the empty slot.
SynAnswer(r, q, s) ==
  \/ /\ q.ctrl = Append(r.ctrl, FrameOf("Reject", s))
     /\ q.active = r.active /\ (r.active # None => q.flags = r.flags)
  \/ r.active = None /\ q.active = s /\ q.flags = {} /\ q.ctrl = r.ctrl

SynEffect(r, q, s) ==
  /\ q \in Session /\ SessionOK(q)
  /\ \A u \in StreamId \ {s} : q.handle[u] = r.handle[u]
  /\ r.closed => q.closed
  /\ q.writer = r.writer /\ q.data = r.data
  /\ q.ctrl \in {r.ctrl, Append(r.ctrl, FrameOf("Reject", s))}
  /\ q.rx # "end" => SynAnswer(r, q, s)

\* The receive loop that finds the control queue full gives the session up.
LEMMA SynGivenUp ==
  ASSUME NEW r \in Session, NEW e \in Session, NEW s \in StreamId, SessionOK(e),
         \A u \in StreamId \ {s} : e.handle[u] = r.handle[u],
         e.writer = r.writer, e.data = r.data, e.ctrl = r.ctrl
  PROVE  SynEffect(r, EndReceive(e), s)
<1> DEFINE q == EndReceive(e)
<1>1. /\ q \in Session /\ Keeps(e, q) /\ q.ctrl = e.ctrl /\ q.rx = "end" /\ q.closed
  BY Zenon, EndReceiveType, EndReceiveEffect
<1>2. SessionOK(q)
  BY Zenon, EndReceiveGood DEF Good, Side
<1> HIDE DEF q
<1>. QED  BY Zenon, <1>1, <1>2 DEF SynEffect, Keeps, q

\* Taking the empty slot for a stream not in use keeps the invariant of the session.
LEMMA InsertOK ==
  ASSUME NEW r \in Session, NEW s \in StreamId, SessionOK(r), r.handle[s] = "none", r.rx # "end",
         r.active = None,
         NEW h \in {"none", "opening", "incoming", "open", "closed", "dropped"}, h # "none"
  PROVE  LET e == Insert(r, s, h) IN
         /\ e \in Session /\ SessionOK(e)
         /\ e.active = s /\ e.flags = {} /\ e.ctrl = r.ctrl /\ e.data = r.data
         /\ e.writer = r.writer /\ e.rx = r.rx /\ e.closed = r.closed /\ e.drain = r.drain
         /\ e.age = r.age
         /\ \A u \in StreamId \ {s} : e.handle[u] = r.handle[u]
<1> DEFINE e == Insert(r, s, h)
<1>1. e \in Session
  BY InsertType
<1>2. /\ e.active = s /\ e.flags = {} /\ e.ctrl = r.ctrl /\ e.data = r.data
      /\ e.writer = r.writer /\ e.rx = r.rx /\ e.closed = r.closed /\ e.drain = r.drain
      /\ e.age = r.age /\ e.pumping = r.pumping \cup {s} /\ e.task = r.task
      /\ e.handle[s] = h
      /\ \A u \in StreamId \ {s} : e.handle[u] = r.handle[u]
  BY Zenon DEF Insert, Session
<1> HIDE DEF e
<1>3. /\ NoTask.call = "none" /\ NoTask.pc = "none" /\ Flag # {}
  BY Zenon DEF NoTask, TaskOf, Flag
<1>4. r.task[s] = NoTask
  BY Zenon DEF SessionOK
<1>5. ASSUME NEW u \in StreamId
      PROVE  /\ e.active = u /\ "read_closed" \in e.flags => u \notin e.pumping
             /\ Alive(e) /\ e.active = u /\ e.flags = Flag => FinishDue(e, u)
             /\ e.active = u /\ PastFin(e.task[u]) => "local_fin" \in e.flags
             /\ e.task[u].call = "open" /\ e.task[u].pc = "err" => ~Alive(e)
             /\ e.handle[u] = "none" => e.active # u /\ e.task[u] = NoTask
  <2>1. CASE u = s
    BY Zenon, <1>2, <1>3, <1>4, <2>1 DEF PastFin
  <2>2. CASE u # s
    <3>1. e.active # u /\ e.task[u] = r.task[u] /\ e.handle[u] = r.handle[u]
      BY Zenon, <1>2, <2>2
    <3>2. Alive(e) <=> Alive(r)
      BY <1>2 DEF Alive
    <3>3. /\ r.task[u].call = "open" /\ r.task[u].pc = "err" => ~Alive(r)
          /\ r.handle[u] = "none" => r.task[u] = NoTask
      BY Zenon DEF SessionOK
    <3> QED  BY Zenon, <3>1, <3>2, <3>3
  <2>. QED  BY Zenon, <2>1, <2>2
<1>6. SessionOK(e)
  BY Zenon, <1>2, <1>5 DEF SessionOK
<1>. QED  BY Zenon, <1>1, <1>2, <1>6 DEF e

\* on_receive_syn_cmd rejects the SYN, takes the slot or gives the session up.
LEMMA OnSynEffect ==
  ASSUME NEW r \in Session, NEW s \in StreamId, SessionOK(r), r.rx # "end", r.handle[s] = "none"
  PROVE  SynEffect(r, OnSyn(r, s), s)
<1> DEFINE f == FrameOf("Reject", s)
           e == Insert(r, s, "dropped")
<1>0. f \in Frame /\ r.active # s /\ None \notin StreamId
  <2>1. f \in Frame
    BY FrameType DEF Command
  <2>2. r.active # s
    BY Zenon DEF SessionOK
  <2>3. None \notin StreamId
    BY DEF None, StreamId
  <2> QED  BY <2>1, <2>2, <2>3
<1> HIDE DEF f
<1>1. \/ OnSyn(r, s) = QueueControl(r, f)
      \/ /\ ~Expired(r) /\ r.active = None
         /\ OnSyn(r, s) = QueueAndRemove(e, f, s)
      \/ r.active = None /\ OnSyn(r, s) = Insert(r, s, "incoming")
  BY <1>0 DEF OnSyn, f
<1>2. CASE OnSyn(r, s) = QueueControl(r, f)
  <2> DEFINE q == QueueControl(r, f)
  <2>1. CASE q = EndReceive(r)
    BY Zenon, <1>2, <2>1, SynGivenUp
  <2>2. CASE /\ q.ctrl = Append(r.ctrl, f) /\ Keeps(r, q) /\ q.rx = r.rx /\ q.closed = r.closed
             /\ q.drain = r.drain /\ q.active = r.active /\ q.flags = r.flags
             /\ q.pumping = r.pumping
    <3>1. q \in Session
      BY Zenon, <1>0, QueueControlType
    <3> HIDE DEF q
    <3>2. SessionOK(q)
      BY Zenon, <2>2, <3>1, SameOK DEF Keeps
    <3>. QED  BY Zenon, <1>2, <2>2, <3>1, <3>2 DEF SynEffect, SynAnswer, Keeps, f, q
  <2>. QED  BY Zenon, <1>0, <2>1, <2>2, QueueControlEffect
<1>3. CASE ~Expired(r) /\ r.active = None /\ OnSyn(r, s) = QueueAndRemove(e, f, s)
  <2> DEFINE d == QueueControl(e, f)
             q == Remove(d, s)
  <2>1. /\ e \in Session /\ SessionOK(e)
        /\ e.active = s /\ e.ctrl = r.ctrl /\ e.data = r.data
        /\ e.writer = r.writer /\ e.rx = r.rx /\ e.closed = r.closed /\ e.drain = r.drain
        /\ e.age = r.age
        /\ \A u \in StreamId \ {s} : e.handle[u] = r.handle[u]
    <3>1. /\ "dropped" \in {"none", "opening", "incoming", "open", "closed", "dropped"}
          /\ "dropped" # "none"
      OBVIOUS
    <3>2. r.active = None
      BY <1>3
    <3> QED  BY <3>1, <3>2, InsertOK
  <2> HIDE DEF e
  <2>2. d \in Session
    BY Zenon, <1>0, <2>1, QueueControlType
  <2>3. CASE d = EndReceive(e)
    <3>1. d.rx = "end"
      BY Zenon, <2>1, <2>3, EndReceiveEffect
    <3>2. OnSyn(r, s) = EndReceive(e)
      BY Zenon, <1>3, <2>3, <3>1 DEF QueueAndRemove
    <3>. QED  BY Zenon, <2>1, <3>2, SynGivenUp
  <2>4. CASE /\ d.ctrl = Append(e.ctrl, f) /\ Keeps(e, d) /\ d.rx = e.rx /\ d.closed = e.closed
             /\ d.drain = e.drain /\ d.active = e.active /\ d.flags = e.flags
             /\ d.pumping = e.pumping
    <3> HIDE DEF d
    <3>0. d.rx # "end"
      BY Zenon, <2>1, <2>4
    <3>1. OnSyn(r, s) = q
      BY Zenon, <1>3, <3>0 DEF QueueAndRemove, d
    <3>2. /\ q \in Session /\ Keeps(d, q) /\ q.ctrl = d.ctrl /\ q.rx = d.rx
          /\ q.pumping = d.pumping /\ q.active = None
          /\ d.closed => q.closed
          /\ q.drain => d.drain \/ q.closed
      BY Zenon, <2>1, <2>2, <2>4, RemoveType, RemoveEffect
    <3> HIDE DEF q
    <3>3. SessionOK(q)
      <4>1. SessionOK(d)
        <5>1. /\ d.handle = e.handle /\ d.task = e.task /\ d.writer = e.writer
              /\ (e.closed => d.closed) /\ (d.drain => e.drain \/ d.closed)
          BY Zenon, <2>4 DEF Keeps
        <5> QED  BY Zenon, <2>1, <2>2, <2>4, <5>1, SameOK
      <4>2. q.handle = d.handle /\ q.task = d.task /\ q.writer = d.writer
        BY Zenon, <3>2 DEF Keeps
      <4> QED  BY Zenon, <2>2, <3>2, <4>1, <4>2, SameOK
    <3>4. /\ \A u \in StreamId \ {s} : q.handle[u] = r.handle[u]
          /\ r.closed => q.closed
          /\ q.writer = r.writer /\ q.data = r.data /\ q.ctrl = Append(r.ctrl, f)
      BY <2>1, <2>4, <3>2 DEF Keeps
    <3>5. SynAnswer(r, q, s)
      BY Zenon, <1>3, <3>2, <3>4 DEF SynAnswer, f
    <3>6. SynEffect(r, q, s)
      BY Zenon, <3>2, <3>3, <3>4, <3>5 DEF SynEffect, f
    <3> QED  BY Zenon, <3>1, <3>6
  <2>. QED  BY Zenon, <1>0, <2>1, <2>3, <2>4, QueueControlEffect
<1>4. CASE r.active = None /\ OnSyn(r, s) = Insert(r, s, "incoming")
  <2> DEFINE q == Insert(r, s, "incoming")
  <2>1. /\ q \in Session /\ SessionOK(q)
        /\ q.active = s /\ q.flags = {} /\ q.ctrl = r.ctrl /\ q.data = r.data
        /\ q.writer = r.writer /\ q.closed = r.closed
        /\ \A u \in StreamId \ {s} : q.handle[u] = r.handle[u]
    <3>1. /\ "incoming" \in {"none", "opening", "incoming", "open", "closed", "dropped"}
          /\ "incoming" # "none"
      OBVIOUS
    <3>2. r.active = None
      BY <1>4
    <3> QED  BY <3>1, <3>2, InsertOK
  <2> HIDE DEF q
  <2>2. OnSyn(r, s) = q
    BY <1>4 DEF q
  <2>. QED  BY Zenon, <1>4, <2>1, <2>2 DEF SynEffect, SynAnswer
<1>. QED  BY Zenon, <1>1, <1>2, <1>3, <1>4

\* A SYN arriving at the server preserves the invariant.
LEMMA SynInv ==
  ASSUME Inv, Receive("server"), Head(wire["client"]).cmd = "Syn" PROVE Inv'
<1> DEFINE r == ses["server"]
           w == wire["client"]
           s == Head(w).sid
           q == OnSyn(r, s)
           v == IF q.rx = "end" THEN << >> ELSE Tail(w)
           f == FrameOf("Reject", s)
<1>1. /\ "client" \in Side /\ "server" \in Side /\ Peer("client") = "server"
      /\ Peer("server") = "client" /\ \A z \in Side : z \in {"client", "server"}
  BY Zenon DEF Side, Peer
<1>2. /\ r \in Session /\ SessionOK(r) /\ w \in Seq(Frame) /\ r.ctrl \in Seq(Frame)
  BY <1>1, Fields DEF Inv, TypeOK, AllOK
<1>3. /\ w # << >> /\ r.rx # "end"
      /\ ses' = [ses EXCEPT !["server"] = q] /\ wire' = [wire EXCEPT !["client"] = v]
  BY Zenon, <1>1 DEF Receive, SetReading, Set, OnFrame
<1>4. /\ Head(w) \in Frame /\ Tail(w) \in Seq(Frame) /\ Elements(w) = {Head(w)} \cup Elements(Tail(w))
  BY Zenon, <1>2, <1>3, ElementsHeadTail
<1>5. s \in StreamId /\ Head(w) = FrameOf("Syn", s) /\ Head(w) \in InFlight("client")
  <2>1. s \in StreamId /\ Head(w) = FrameOf("Syn", s)
    BY Zenon, <1>4 DEF Frame, FrameOf
  <2>. QED  BY Zenon, <1>4, <2>1 DEF InFlight
<1>6. r.handle[s] = "none" /\ ses["client"].handle[s] # "none"
  BY Zenon, <1>1, <1>5 DEF Inv, Fresh
<1>7. r.active # s
  BY Zenon, <1>2, <1>5, <1>6 DEF SessionOK
<1>8. FrameOf("Syn", s) \notin Elements(ses["client"].ctrl) \cup Elements(ses["client"].data)
                               \cup Elements(Tail(w))
  BY Zenon, <1>3, SynGone DEF Inv
<1> HIDE DEF r, s
<1>9. SynEffect(r, q, s)
  BY Zenon, <1>2, <1>3, <1>5, <1>6, OnSynEffect
<1> HIDE DEF q
<1>10. /\ ses'["server"] = q /\ ses'["client"] = ses["client"]
       /\ wire'["client"] = v /\ wire'["server"] = wire["server"]
       /\ TypeOK' /\ AllOK'
  <2>1. v \in Seq(Frame)
    BY <1>4
  <2>. QED  BY Zenon, <1>1, <1>3, <1>9, <2>1 DEF Inv, TypeOK, AllOK, SynEffect
<1>11. Elements(v) \subseteq Elements(Tail(w)) /\ (q.rx # "end" => v = Tail(w))
  BY SynFirstEmpty
<1> HIDE DEF v
<1>12. /\ InFlight("client")' \subseteq InFlight("client")
       /\ FrameOf("Syn", s) \notin InFlight("client")'
       /\ q.rx # "end" => \A g \in InFlight("client") : g \in InFlight("client")' \/ g = FrameOf("Syn", s)
  BY Zenon, <1>4, <1>5, <1>8, <1>10, <1>11 DEF InFlight
<1>13. f \in Frame /\ f.cmd = "Reject" /\ f.sid = s
  BY <1>5 DEF FrameOf, Frame, Command
<1>14. /\ InFlight("server")' \subseteq InFlight("server") \cup {f}
       /\ q.rx # "end" => InFlight("server") \subseteq InFlight("server")'
       /\ q.ctrl = Append(r.ctrl, f) => f \in InFlight("server")'
  <2>1. Elements(Append(r.ctrl, f)) = Elements(r.ctrl) \cup {f}
    BY Zenon, <1>2, <1>13, ElementsAppend
  <2>2. InFlight("server")' = Elements(q.ctrl) \cup Elements(r.data) \cup Elements(wire["server"])
    BY Zenon, <1>9, <1>10 DEF InFlight, SynEffect
  <2>. QED  BY Zenon, <1>9, <2>1, <2>2 DEF InFlight, SynEffect, r
<1>15. Fresh'
  <2> SUFFICES ASSUME NEW u \in StreamId
               PROVE  /\ ses["client"].handle[u] = "none"
                         => /\ \A z \in Side : \A g \in InFlight(z)' : g.sid # u
                            /\ q.handle[u] = "none"
                      /\ q.handle[u] # "none" => FrameOf("Syn", u) \notin InFlight("client")'
    BY Zenon, <1>10 DEF Fresh
  <2>1. CASE u = s
    BY <1>6, <1>12, <2>1
  <2>2. CASE u # s
    <3>1. q.handle[u] = r.handle[u]
      BY Zenon, <1>9, <2>2 DEF SynEffect
    <3>2. ASSUME ses["client"].handle[u] = "none", NEW z \in Side, NEW g \in InFlight(z)' PROVE g.sid # u
      <4>1. \A y \in Side : \A h \in InFlight(y) : h.sid # u
        BY <1>1, <3>2 DEF Inv, Fresh
      <4>2. g \in InFlight("client") \/ g \in InFlight("server") \/ g = f
        BY Zenon, <1>12, <1>14, <3>2 DEF Side
      <4>. QED  BY Zenon, <1>13, <2>2, <4>1, <4>2 DEF Side
    <3>3. r.handle[u] # "none" => FrameOf("Syn", u) \notin InFlight("client")'
      BY Zenon, <1>12 DEF Inv, Fresh, r
    <3>4. ses["client"].handle[u] = "none" => r.handle[u] = "none"
      BY Zenon DEF Inv, Fresh, r
    <3>. QED  BY Zenon, <3>1, <3>2, <3>3, <3>4
  <2>. QED  BY Zenon, <2>1, <2>2
<1>16. SynOrder'
  <2>1. SynFirst(v)
    BY Zenon, <1>2, <1>3, SynFirstTail, SynFirstEmpty DEF Inv, SynOrder, v
  <2>2. \A u : NoSid(w, u) => NoSid(v, u)
    BY Zenon, <1>4, <1>11, NoSidElements
  <2>3. /\ \A g \in InFlight("client")' : g.cmd # "Reject"
        /\ \A g \in InFlight("server")' : g.cmd # "Syn"
    BY Zenon, <1>12, <1>13, <1>14 DEF Inv, SynOrder
  <2>. QED  BY Zenon, <1>10, <2>1, <2>2, <2>3 DEF Inv, SynOrder
<1>17. Alive(q) => Alive(r) /\ q.rx # "end" /\ SynAnswer(r, q, s)
  BY Zenon, <1>9 DEF SynEffect, SessionOK, Alive
<1>18. \A c \in {"Fin", "Reject"}, u, t \in StreamId : FrameOf(c, u) # FrameOf("Syn", t)
  BY Zenon DEF FrameOf
<1>19. FinAfterSyn'
  <2> SUFFICES ASSUME NEW u \in StreamId, Alive(ses["client"]), Alive(q),
                      FrameOf("Syn", u) \in InFlight("client")', Gone("client", u)'
               PROVE  FrameOf("Fin", u) \in InFlight("client")'
    BY Zenon, <1>10 DEF FinAfterSyn
  <2>1. FrameOf("Fin", u) \in InFlight("client")
    BY Zenon, <1>10, <1>12, <1>17 DEF Inv, FinAfterSyn, Gone, r
  <2>. QED  BY Zenon, <1>5, <1>12, <1>17, <1>18, <2>1
<1>20. FinSent'
  <2> SUFFICES ASSUME NEW z \in Side, NEW u \in StreamId, Alive(ses["client"]), Alive(q),
                      ses'[z].active = u, "remote_fin" \notin ses'[z].flags,
                      Gone(Peer(z), u)', FrameOf("Syn", u) \notin InFlight(z)'
               PROVE  \E c \in {"Fin", "Reject"} : FrameOf(c, u) \in InFlight(Peer(z))'
    <3>1. \A z \in Side : Alive(ses'[z]) /\ Alive(ses'[Peer(z)]) => Alive(ses["client"]) /\ Alive(q)
      BY Zenon, <1>1, <1>10
    <3>. QED  BY Zenon, <3>1 DEF FinSent
  <2>0. None \notin StreamId
    BY DEF None, StreamId
  <2>1. CASE z = "client"
    <3>1. ses["client"].active = u /\ "remote_fin" \notin ses["client"].flags
      BY Zenon, <1>10, <2>1
    <3>2. CASE u = s
      <4>1. q.active # s
        <5>1. q.active # u \/ "local_fin" \in q.flags
          BY Zenon, <1>1, <1>10, <2>1 DEF Gone
        <5>. QED  BY Zenon, <1>7, <1>17, <3>2, <5>1 DEF SynAnswer
      <4>2. f \in InFlight("server")'
        BY Zenon, <1>14, <1>17, <4>1 DEF SynAnswer
      <4>. QED  BY Zenon, <1>1, <2>1, <3>2, <4>2
    <3>3. CASE u # s
      <4>1. FrameOf("Syn", u) \notin InFlight("client")
        BY Zenon, <1>12, <1>17, <2>1, <3>3 DEF FrameOf
      <4>2. Gone("server", u)
        BY Zenon, <1>1, <1>10, <1>17, <2>0, <2>1, <3>3 DEF Gone, SynAnswer, r
      <4>3. PICK c \in {"Fin", "Reject"} : FrameOf(c, u) \in InFlight("server")
        BY Zenon, <1>1, <1>17, <3>1, <4>1, <4>2 DEF Inv, FinSent, r
      <4>. QED  BY Zenon, <1>1, <1>14, <1>17, <2>1, <4>3
    <3>. QED  BY Zenon, <3>2, <3>3
  <2>2. CASE z = "server"
    <3>0. Gone("client", u)
      BY Zenon, <1>1, <1>10, <2>2 DEF Gone
    <3>1. CASE q.active = r.active /\ (r.active # None => q.flags = r.flags)
      <4>1. r.active = u /\ "remote_fin" \notin r.flags
        BY Zenon, <1>10, <2>0, <2>2, <3>1
      <4>2. FrameOf("Syn", u) \notin InFlight("server")
        <5>1. FrameOf("Syn", u).cmd = "Syn"
          BY Zenon DEF FrameOf
        <5>. QED  BY Zenon, <5>1 DEF Inv, SynOrder
      <4>3. PICK c \in {"Fin", "Reject"} : FrameOf(c, u) \in InFlight("client")
        BY Zenon, <1>1, <1>17, <3>0, <4>1, <4>2 DEF Inv, FinSent, r
      <4>. QED  BY Zenon, <1>1, <1>5, <1>12, <1>17, <1>18, <2>2, <4>3
    <3>2. CASE q.active = s
      <4>1. u = s
        BY Zenon, <1>10, <2>2, <3>2
      <4>2. FrameOf("Fin", s) \in InFlight("client")
        BY Zenon, <1>5, <1>17, <3>0, <4>1 DEF Inv, FinAfterSyn, r
      <4>. QED  BY Zenon, <1>1, <1>5, <1>12, <1>17, <1>18, <2>2, <4>1, <4>2
    <3>. QED  BY Zenon, <1>17, <3>1, <3>2 DEF SynAnswer
  <2>. QED  BY Zenon, <1>1, <2>1, <2>2
<1>. QED  BY Zenon, <1>10, <1>15, <1>16, <1>19, <1>20 DEF Inv

-----------------------------------------------------------------------------
\* Two new sessions satisfy the invariant.
LEMMA InitInv == Init => Inv
<1> SUFFICES ASSUME Init PROVE Inv
  OBVIOUS
<1>1. NoTask \in Task
  BY Zenon DEF NoTask, TaskOf, Task
<1>2. NewSession \in Session
  <2>1. << >> \in Seq(Frame) /\ << >> \in Seq({"Data", "Fin"}) /\ 0 \in 0 .. MaxPush
    BY ConstantsAssumption
  <2>. QED  BY Zenon, <1>1, <2>1 DEF NewSession, Session
<1>3. /\ NewSession.active = None /\ NewSession.ctrl = << >> /\ NewSession.data = << >>
      /\ ~NewSession.closed /\ ~NewSession.drain /\ NewSession.writer = "run" /\ NewSession.rx = "run"
      /\ \A s \in StreamId : NewSession.handle[s] = "none" /\ NewSession.task[s] = NoTask
  BY DEF NewSession
<1>4. \A x \in Side : ses[x] = NewSession /\ wire[x] = << >>
  BY DEF Init
<1>5. "client" \in Side /\ "server" \in Side
  BY DEF Side
<1>6. TypeOK
  <2>1. << >> \in Seq(Frame)
    OBVIOUS
  <2>. QED  BY <1>2, <2>1 DEF TypeOK, Init
<1>7. None \notin StreamId
  BY DEF None, StreamId
<1> HIDE DEF NewSession
<1>8. AllOK
  <2>1. NoTask.call = "none"
    BY Zenon DEF NoTask, TaskOf
  <2>2. SessionOK(NewSession)
    BY Zenon, <1>3, <1>7, <2>1 DEF SessionOK
  <2>. QED  BY Zenon, <1>4, <2>2 DEF AllOK
<1>9. \A x \in Side : InFlight(x) = {}
  BY Zenon, <1>3, <1>4, SynFirstEmpty DEF InFlight
<1>10. SynOrder
  <2>1. ses["client"].ctrl = << >> /\ ses["client"].data = << >> /\ wire["client"] = << >>
    BY <1>3, <1>4, <1>5
  <2>. QED  BY <1>5, <1>9, <2>1, SynFirstEmpty DEF SynOrder
<1>11. Fresh /\ FinAfterSyn /\ FinSent
  BY Zenon, <1>3, <1>4, <1>5, <1>7, <1>9 DEF Fresh, FinAfterSyn, FinSent
<1>. QED  BY <1>6, <1>8, <1>10, <1>11 DEF Inv

\* Every step preserves the invariant.
LEMMA NextInv == Inv /\ [Next]_vars => Inv'
<1> SUFFICES ASSUME Inv, [Next]_vars PROVE Inv'
  OBVIOUS
<1>0. TypeOK /\ AllOK /\ "client" \in Side /\ "server" \in Side /\ Peer("server") = "client"
  BY DEF Inv, Side, Peer
<1>1. ASSUME NEW x \in Side, SessionStep(x) PROVE Inv'
  <2>1. CASE Receive(x)
    <3>1. CASE x = "server" /\ Head(wire["client"]).cmd = "Syn"
      BY Zenon, <2>1, <3>1, SynInv
    <3>2. CASE x = "client" \/ Head(wire[Peer(x)]).cmd # "Syn"
      BY Zenon, <2>1, <3>2, ReceiveInv
    <3>. QED  BY Zenon, <1>0, <3>1, <3>2 DEF Side
  <2>2. CASE ReceiveEnd(x)
    BY Zenon, <2>2, ReceiveInv
  <2>3. CASE Write(x)
    BY Zenon, <2>3, WriteInv
  <2>4. CASE WriteFail(x)
    BY Zenon, <1>0, <2>4, WriteFailLocal, LocalInv
  <2>5. CASE Drain(x) \/ ShutdownCalled(x) \/ WriterEnd(x) \/ Expire(x) \/ ExpireCheck(x)
    BY Zenon, <1>0, <2>5, SessionStepsLocal, LocalInv
  <2>. QED  BY Zenon, <1>1, <2>1, <2>2, <2>3, <2>4, <2>5 DEF SessionStep
<1>2. ASSUME NEW x \in Side, NEW s \in StreamId, StreamStep(x, s) PROVE Inv'
  <2>1. CASE PumpData(x, s) \/ PumpFin(x, s) \/ PumpEnd(x, s) \/ LateFin(x, s)
    BY Zenon, <1>0, <2>1, PumpStepsLocal, LocalInv
  <2>2. CASE \/ WaitCancelled(x, s) \/ ShutdownWrite(x, s) \/ Close(x, s)
             \/ Drop(x, s) \/ DropHelper(x, s)
    BY Zenon, <1>0, <2>2, CallStepsLocal, LocalInv
  <2>3. CASE FinDone(x, s) \/ Retire(x, s) \/ WriteData(x, s)
    BY Zenon, <1>0, <2>3, EndStepsLocal, LocalInv
  <2>. QED  BY Zenon, <1>2, <2>1, <2>2, <2>3 DEF StreamStep
<1>3. ASSUME NEW s \in StreamId, ClientStep(s) \/ ServerStep(s) PROVE Inv'
  <2>1. CASE Open(s)
    BY Zenon, <2>1, OpenInv
  <2>2. CASE OpenDone(s) \/ OpenFailed(s) \/ CloseTimeout(s)
    BY Zenon, <1>0, <2>2, ClientStepsLocal, LocalInv
  <2>3. CASE Accept(s) \/ Refuse(s)
    BY Zenon, <1>0, <2>3, ServerStepsLocal, LocalInv
  <2>. QED  BY Zenon, <1>3, <2>1, <2>2, <2>3 DEF ClientStep, ServerStep
<1>4. CASE UNCHANGED vars
  BY Zenon, <1>4 DEF vars, Inv, TypeOK, AllOK, SynOrder, Fresh, FinAfterSyn, FinSent, Gone, InFlight
<1>. QED  BY Zenon, <1>1, <1>2, <1>3, <1>4 DEF Next

\* Both sessions and the transport keep their types, whatever the tasks, the
\* applications and the transport do.
THEOREM TypeCorrect == Spec => []TypeOK
<1>1. Inv => TypeOK
  BY Zenon DEF Inv
<1>. QED  BY <1>1, InitInv, NextInv, PTL DEF Spec

\* A side that waits for its peer's FIN never waits in vain while both sessions work:
\* no removal of a stream, by close, drop, reset, rejection or end, forgets to tell
\* the peer, and no reordering by the two write queues loses that message.
THEOREM FinIsNeverLost == Spec => []FinNeverLost
<1>1. Inv => FinNeverLost
  BY Zenon DEF Inv, FinSent, FinNeverLost, Gone, Healthy, Alive
<1>. QED  BY <1>1, InitInv, NextInv, PTL DEF Spec

\* finish_stream_if_closed is called by whichever of the three parties comes last.
THEOREM FinishIsNeverMissed == Spec => []NoFinishMissed
<1>1. Inv => NoFinishMissed
  BY Zenon DEF Inv, AllOK, SessionOK, NoFinishMissed, Healthy, Alive, FinishDue
<1>. QED  BY <1>1, InitInv, NextInv, PTL DEF Spec

\* No stream is left, or put, in the slot of a session whose receive loop has ended.
THEOREM EndedSessionIsEmpty == Spec => []NoStreamAfterEnd
<1>1. Inv => NoStreamAfterEnd
  BY DEF Inv, AllOK, SessionOK, NoStreamAfterEnd
<1>. QED  BY <1>1, InitInv, NextInv, PTL DEF Spec
=============================================================================
