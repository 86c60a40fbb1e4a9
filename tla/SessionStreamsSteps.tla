------------------------ MODULE SessionStreamsSteps -------------------------
(***************************************************************************)
(* The inductive invariant of SessionStreams, and what the steps of one    *)
(* side do to it.  SessionStreamsProofs puts the two sides together.       *)
(***************************************************************************)
EXTENDS SessionStreams, TLAPS

\* No frame of queue q belongs to stream s.
NoSid(q, s) == \A i \in DOMAIN q : q[i].sid # s

\* A SYN is the first frame of its stream in q.
SynFirst(q) ==
  \A i \in DOMAIN q : q[i].cmd = "Syn" => \A j \in 1 .. i - 1 : q[j].sid # q[i].sid

Alive(r) == ~r.closed /\ r.writer = "run"

\* Someone is about to call finish_stream_if_closed for s.
FinishDue(r, s) ==
  \/ r.task[s].pc = "spawned"
  \/ r.task[s].pc \in {"wait", "ok"} /\ r.task[s].flag /\ r.task[s].call # "open"

\* The call has recorded the local FIN, if its stream was active.
PastFin(t) == t.pc = "retire" \/ (t.call \in {"close", "drop"} /\ t.pc # "spawned")

\* What holds of one session at any time.
SessionOK(r) ==
  /\ r.rx = "end" => r.closed /\ r.active = None
  /\ r.writer = "off" => r.closed
  /\ r.drain => r.closed
  /\ \A s \in StreamId :
       /\ r.active = s /\ "read_closed" \in r.flags => s \notin r.pumping
       /\ Alive(r) /\ r.active = s /\ r.flags = Flag => FinishDue(r, s)
       /\ r.active = s /\ PastFin(r.task[s]) => "local_fin" \in r.flags
       /\ r.task[s].call = "open" /\ r.task[s].pc = "err" => ~Alive(r)
       /\ r.handle[s] = "none" => r.active # s /\ r.task[s] = NoTask

\* Side x has given up s, or will send nothing more on it but its FIN.
Gone(x, s) == ses[x].active # s \/ "local_fin" \in ses[x].flags

\* The SYN of a stream precedes its other frames, and comes once; only the client
\* sends SYNs and only the server rejects them.
SynOrder ==
  /\ SynFirst(ses["client"].ctrl) /\ SynFirst(wire["client"])
  /\ \A i \in DOMAIN ses["client"].ctrl :
       ses["client"].ctrl[i].cmd = "Syn" => NoSid(wire["client"], ses["client"].ctrl[i].sid)
  /\ \A f \in Elements(ses["client"].data) : f.cmd # "Syn"
  /\ \A f \in InFlight("client") : f.cmd # "Reject"
  /\ \A f \in InFlight("server") : f.cmd # "Syn"

\* A stream exists nowhere before the client opens it, and at the server only once
\* its SYN has arrived.
Fresh ==
  \A s \in StreamId :
    /\ ses["client"].handle[s] = "none"
       => /\ \A x \in Side : \A f \in InFlight(x) : f.sid # s
          /\ ses["server"].handle[s] = "none"
    /\ ses["server"].handle[s] # "none" => FrameOf("Syn", s) \notin InFlight("client")

\* The FIN of a stream the client has given up follows its SYN.
FinAfterSyn ==
  \A s \in StreamId :
    /\ Alive(ses["client"]) /\ Alive(ses["server"])
    /\ FrameOf("Syn", s) \in InFlight("client") /\ Gone("client", s)
    => FrameOf("Fin", s) \in InFlight("client")

\* FinNeverLost, for a side that has merely sent its FIN as well.
FinSent ==
  \A x \in Side, s \in StreamId :
    /\ Alive(ses[x]) /\ Alive(ses[Peer(x)])
    /\ ses[x].active = s /\ "remote_fin" \notin ses[x].flags
    /\ Gone(Peer(x), s)
    /\ FrameOf("Syn", s) \notin InFlight(x)
    => \E c \in {"Fin", "Reject"} : FrameOf(c, s) \in InFlight(Peer(x))

AllOK == \A x \in Side : SessionOK(ses[x])

\* The inductive invariant.
Inv == TypeOK /\ AllOK /\ SynOrder /\ Fresh /\ FinAfterSyn /\ FinSent

-----------------------------------------------------------------------------
(* Types.                                                                  *)

\* Emptying the slot (the token of the stream cancelled) keeps the type.
LEMMA EmptyType ==
  ASSUME NEW r \in Session PROVE Empty(r) \in Session
BY Zenon DEF Empty, Session, Flag, StreamId, None

\* shutdown() keeps the type.
LEMMA ShutdownType ==
  ASSUME NEW r \in Session PROVE Shutdown(r) \in Session
BY Zenon DEF Shutdown, Session

\* Offering the session to the pool keeps the type.
LEMMA IdleType ==
  ASSUME NEW r \in Session PROVE [r EXCEPT !.idle = TRUE] \in Session
BY Zenon DEF Session

\* remove_stream_by_id keeps the type.
LEMMA RemoveType ==
  ASSUME NEW r \in Session, NEW s \in StreamId PROVE Remove(r, s) \in Session
<1>1. Empty(r) \in Session
  BY EmptyType
<1>2. Shutdown(Empty(r)) \in Session
  BY <1>1, ShutdownType
<1>3. [Empty(r) EXCEPT !.idle = TRUE] \in Session
  BY <1>1, IdleType
<1>. QED  BY <1>2, <1>3 DEF Remove

\* finish_stream_if_closed keeps the type.
LEMMA FinishType ==
  ASSUME NEW r \in Session, NEW s \in StreamId PROVE Finish(r, s) \in Session
BY RemoveType DEF Finish

\* on_stream_read_closed keeps the type.
LEMMA ReadClosedType ==
  ASSUME NEW r \in Session, NEW s \in StreamId PROVE ReadClosed(r, s) \in Session
<1>1. [r EXCEPT !.flags = @ \cup {"read_closed"}] \in Session
  BY Zenon DEF Session, Flag
<1>. QED  BY <1>1, FinishType DEF ReadClosed

\* The end of the receive loop keeps the type.
LEMMA EndReceiveType ==
  ASSUME NEW r \in Session PROVE EndReceive(r) \in Session
<1>1. ASSUME NEW e \in Session
      PROVE  [e EXCEPT !.rx = "end", !.closed = TRUE, !.drain = FALSE] \in Session
  BY Zenon DEF Session
<1>. QED  BY Zenon, <1>1, EmptyType DEF EndReceive

\* The control queue may hold any sequence of frames.
LEMMA CtrlType ==
  ASSUME NEW r \in Session, NEW q \in Seq(Frame) PROVE [r EXCEPT !.ctrl = q] \in Session
BY Zenon DEF Session

\* The data queue may hold any sequence of frames.
LEMMA DataType ==
  ASSUME NEW r \in Session, NEW q \in Seq(Frame) PROVE [r EXCEPT !.data = q] \in Session
BY Zenon DEF Session

\* A call on a stream may be replaced by any other.
LEMMA TaskType ==
  ASSUME NEW r \in Session, NEW s \in StreamId, NEW t \in Task
  PROVE  [r EXCEPT !.task[s] = t] \in Session
BY Zenon DEF Session

\* A handle may take any of its states.
LEMMA HandleType ==
  ASSUME NEW r \in Session, NEW s \in StreamId,
         NEW h \in {"none", "opening", "incoming", "open", "closed", "dropped"}
  PROVE  [r EXCEPT !.handle[s] = h] \in Session
BY Zenon DEF Session

\* A push channel may hold any sequence of messages.
LEMMA PumpType ==
  ASSUME NEW r \in Session, NEW s \in StreamId, NEW q \in Seq({"Data", "Fin"})
  PROVE  [r EXCEPT !.pump[s] = q] \in Session
BY Zenon DEF Session

\* A StreamState may have any of its facts recorded.
LEMMA FlagType ==
  ASSUME NEW r \in Session, NEW g \in Flag
  PROVE  [r EXCEPT !.flags = @ \cup {g}] \in Session
BY Zenon DEF Session

\* The fields of a Session have the types of its declaration.
LEMMA Fields ==
  ASSUME NEW r \in Session
  PROVE  /\ r.ctrl \in Seq(Frame) /\ r.data \in Seq(Frame)
         /\ r.active \in {None} \cup StreamId /\ r.flags \subseteq Flag
         /\ r.pumping \subseteq StreamId /\ r.late \subseteq StreamId
         /\ r.timer \subseteq StreamId
         /\ r.closed \in BOOLEAN /\ r.drain \in BOOLEAN
         /\ \A s \in StreamId : /\ r.task[s] \in Task
                                /\ r.pump[s] \in Seq({"Data", "Fin"})
                                /\ r.pushed[s] \in 0 .. MaxPush
BY DEF Session

\* queue_control keeps the type.
LEMMA QueueControlType ==
  ASSUME NEW r \in Session, NEW f \in Frame PROVE QueueControl(r, f) \in Session
<1>1. Append(r.ctrl, f) \in Seq(Frame)
  BY Fields
<1>2. [r EXCEPT !.ctrl = Append(@, f)] \in Session
  BY Zenon, <1>1, CtrlType
<1>. QED  BY <1>2, EndReceiveType DEF QueueControl

\* FrameOf makes frames.
LEMMA FrameType ==
  ASSUME NEW c \in Command, NEW s \in StreamId PROVE FrameOf(c, s) \in Frame
BY DEF FrameOf, Frame

\* Resetting a stream keeps the type.
LEMMA QueueAndRemoveType ==
  ASSUME NEW r \in Session, NEW f \in Frame, NEW s \in StreamId
  PROVE  QueueAndRemove(r, f, s) \in Session
BY QueueControlType, RemoveType DEF QueueAndRemove

\* Taking the slot keeps the type.
LEMMA InsertType ==
  ASSUME NEW r \in Session, NEW s \in StreamId,
         NEW h \in {"none", "opening", "incoming", "open", "closed", "dropped"}
  PROVE  Insert(r, s, h) \in Session
BY ZenonT(30) DEF Insert, Session

\* The end of a pump task keeps the type.
LEMMA StopPumpType ==
  ASSUME NEW r \in Session, NEW s \in StreamId PROVE StopPump(r, s) \in Session
<1>1. << >> \in Seq({"Data", "Fin"})
  OBVIOUS
<1>. QED  BY Zenon, <1>1 DEF StopPump, Session

-----------------------------------------------------------------------------
(* What the methods do to the fields the invariant is about.               *)

Keeps(r, q) == /\ q.handle = r.handle /\ q.task = r.task
               /\ q.data = r.data /\ q.writer = r.writer

\* remove_stream_by_id touches nothing but the slot, closed and the pool.
LEMMA RemoveEffect ==
  ASSUME NEW r \in Session, NEW s \in StreamId
  PROVE  /\ Keeps(r, Remove(r, s))
         /\ Remove(r, s).ctrl = r.ctrl /\ Remove(r, s).rx = r.rx
         /\ Remove(r, s).pumping = r.pumping
         /\ r.closed => Remove(r, s).closed
         /\ Remove(r, s).drain => r.drain \/ Remove(r, s).closed
         /\ r.active = s => Remove(r, s).active = None
         /\ r.active # s => Remove(r, s) = r
<1>1. CASE r.active # s
  BY <1>1 DEF Remove, Keeps
<1>2. CASE r.active = s /\ Expired(r)
  <2>1. Remove(r, s) = Shutdown(Empty(r))
    BY <1>2 DEF Remove
  <2>. QED  BY <1>2, <2>1 DEF Shutdown, Empty, Keeps, Session
<1>3. CASE r.active = s /\ ~Expired(r)
  <2>1. Remove(r, s) = [Empty(r) EXCEPT !.idle = TRUE]
    BY <1>3 DEF Remove
  <2>. QED  BY <1>3, <2>1 DEF Empty, Keeps, Session
<1>. QED  BY <1>1, <1>2, <1>3

\* The end of the receive loop empties the slot and closes the session.
LEMMA EndReceiveEffect ==
  ASSUME NEW r \in Session
  PROVE  /\ Keeps(r, EndReceive(r)) /\ EndReceive(r).ctrl = r.ctrl
         /\ EndReceive(r).rx = "end" /\ EndReceive(r).closed
         /\ ~EndReceive(r).drain /\ EndReceive(r).active = None
BY DEF EndReceive, Empty, Keeps, Session

\* queue_control appends one frame or ends the receive loop.
LEMMA QueueControlEffect ==
  ASSUME NEW r \in Session, NEW f \in Frame
  PROVE  \/ QueueControl(r, f) = EndReceive(r)
         \/ /\ r.writer # "off"
            /\ QueueControl(r, f) = [r EXCEPT !.ctrl = Append(@, f)]
            /\ Keeps(r, QueueControl(r, f))
            /\ QueueControl(r, f).ctrl = Append(r.ctrl, f)
            /\ QueueControl(r, f).rx = r.rx /\ QueueControl(r, f).closed = r.closed
            /\ QueueControl(r, f).drain = r.drain /\ QueueControl(r, f).active = r.active
            /\ QueueControl(r, f).flags = r.flags /\ QueueControl(r, f).pumping = r.pumping
BY DEF QueueControl, Keeps, Session

\* finish_stream_if_closed removes a stream with all three facts recorded, or nothing.
LEMMA FinishEffect ==
  ASSUME NEW r \in Session, NEW s \in StreamId
  PROVE  \/ r.active = s /\ r.flags = Flag /\ Finish(r, s) = Remove(r, s)
         \/ ~(r.active = s /\ r.flags = Flag) /\ Finish(r, s) = r
BY DEF Finish

\* on_stream_read_closed records read_closed, and removes the stream if that was the last.
LEMMA ReadClosedEffect ==
  ASSUME NEW r \in Session, NEW s \in StreamId
  PROVE  /\ Keeps(r, ReadClosed(r, s))
         /\ ReadClosed(r, s).ctrl = r.ctrl /\ ReadClosed(r, s).rx = r.rx
         /\ ReadClosed(r, s).pumping = r.pumping
         /\ r.closed => ReadClosed(r, s).closed
         /\ ReadClosed(r, s).drain => r.drain \/ ReadClosed(r, s).closed
         /\ r.active # s => ReadClosed(r, s) = r
         /\ r.active = s
            => \/ /\ ReadClosed(r, s).active = None
                  /\ "local_fin" \in r.flags /\ "remote_fin" \in r.flags
               \/ /\ ReadClosed(r, s).active = s
                  /\ ReadClosed(r, s).flags = r.flags \cup {"read_closed"}
                  /\ ReadClosed(r, s).flags # Flag
<1>1. CASE r.active # s
  BY <1>1 DEF ReadClosed, Keeps
<1>2. CASE r.active = s
  <2> DEFINE e == [r EXCEPT !.flags = @ \cup {"read_closed"}]
  <2>1. e \in Session
    BY Zenon, FlagType DEF Flag
  <2>2. /\ Keeps(r, e) /\ e.ctrl = r.ctrl /\ e.rx = r.rx /\ e.pumping = r.pumping
        /\ e.closed = r.closed /\ e.drain = r.drain /\ e.active = s
        /\ e.flags = r.flags \cup {"read_closed"}
    BY <1>2 DEF Session, Keeps
  <2>3. ReadClosed(r, s) = Finish(e, s)
    BY <1>2 DEF ReadClosed
  <2> HIDE DEF e
  <2>4. CASE e.flags = Flag
    <3>1. Finish(e, s) = Remove(e, s)
      BY <2>2, <2>4 DEF Finish
    <3>2. "local_fin" \in r.flags /\ "remote_fin" \in r.flags
      BY <2>2, <2>4 DEF Flag
    <3>. QED  BY <1>2, <2>1, <2>2, <2>3, <3>1, <3>2, RemoveEffect DEF Keeps
  <2>5. CASE e.flags # Flag
    <3>1. Finish(e, s) = e
      BY <2>5 DEF Finish
    <3>. QED  BY <1>2, <2>2, <2>3, <2>5, <3>1
  <2>. QED  BY <2>4, <2>5
<1>. QED  BY <1>1, <1>2

\* The invariant of a session outlives the emptying of its slot and its closing.
LEMMA SameOK ==
  ASSUME NEW r \in Session, NEW q \in Session, SessionOK(r),
         q.handle = r.handle, q.task = r.task, q.writer = r.writer, q.rx = r.rx,
         q.pumping = r.pumping, r.closed => q.closed, q.drain => r.drain \/ q.closed,
         q.active = None \/ (q.active = r.active /\ q.flags = r.flags)
  PROVE  SessionOK(q)
<1>1. None \notin StreamId
  BY DEF None, StreamId
<1>2. /\ q.rx = "end" => q.closed /\ q.active = None
      /\ q.writer = "off" => q.closed
      /\ q.drain => q.closed
  BY DEF SessionOK
<1>3. ASSUME NEW s \in StreamId
      PROVE  /\ q.active = s /\ "read_closed" \in q.flags => s \notin q.pumping
             /\ Alive(q) /\ q.active = s /\ q.flags = Flag => FinishDue(q, s)
             /\ q.active = s /\ PastFin(q.task[s]) => "local_fin" \in q.flags
             /\ q.task[s].call = "open" /\ q.task[s].pc = "err" => ~Alive(q)
             /\ q.handle[s] = "none" => q.active # s /\ q.task[s] = NoTask
  BY <1>1 DEF SessionOK, Alive, FinishDue
<1>. QED  BY <1>2, <1>3 DEF SessionOK

-----------------------------------------------------------------------------
(* Steps of one side that leave the transport alone.                       *)

\* Queue q is queue p, or empty, or p without its head, or p with a frame of a
\* stream in use appended.
Extension(x, r, p, q) ==
  \/ q \in {p, << >>}
  \/ p # << >> /\ q = Tail(p)
  \/ \E s \in StreamId, c \in {"Push", "Fin", "Reject"} :
       /\ r.handle[s] # "none" /\ (c = "Reject" => x = "server")
       /\ q = Append(p, FrameOf(c, s))

\* The change from r to q on side x takes no stream and loses no frame of a session
\* that goes on working, and gives no stream up without a FIN.
LocalStep(x, r, q) ==
  /\ r.closed => q.closed
  /\ q.writer = "run" => r.writer = "run"
  /\ \A s \in StreamId : q.handle[s] = "none" <=> r.handle[s] = "none"
  /\ Extension(x, r, r.ctrl, q.ctrl) /\ Extension(x, r, r.data, q.data)
  /\ Alive(q) =>
       /\ Elements(r.ctrl) \subseteq Elements(q.ctrl)
       /\ Elements(r.data) \subseteq Elements(q.data)
       /\ \A s \in StreamId :
            /\ q.active = s => r.active = s /\ r.flags \subseteq q.flags
            /\ /\ r.active = s /\ "local_fin" \notin r.flags
               /\ q.active # s \/ "local_fin" \in q.flags
               => FrameOf("Fin", s) \in Elements(q.ctrl) \cup Elements(q.data)

Good(x, r, q) == q \in Session /\ SessionOK(q) /\ LocalStep(x, r, q)

\* The elements of an extended queue.
LEMMA ElementsAppend ==
  ASSUME NEW q \in Seq(Frame), NEW f \in Frame
  PROVE  Elements(Append(q, f)) = Elements(q) \cup {f}
<1>1. DOMAIN Append(q, f) = 1 .. Len(q) + 1
  OBVIOUS
<1>2. /\ Append(q, f)[Len(q) + 1] = f
      /\ \A i \in 1 .. Len(q) : Append(q, f)[i] = q[i]
  OBVIOUS
<1>3. ASSUME NEW g \in Elements(Append(q, f)) PROVE g \in Elements(q) \cup {f}
  BY <1>1, <1>2 DEF Elements
<1>4. ASSUME NEW g \in Elements(q) PROVE g \in Elements(Append(q, f))
  <2>1. PICK i \in 1 .. Len(q) : g = q[i]
    BY DEF Elements
  <2>. QED  BY <1>1, <1>2, <2>1 DEF Elements
<1>5. f \in Elements(Append(q, f))
  BY <1>1, <1>2 DEF Elements
<1>. QED  BY <1>3, <1>4, <1>5

\* The elements of a queue are its head and those of its tail.
LEMMA ElementsHeadTail ==
  ASSUME NEW q \in Seq(Frame), q # << >>
  PROVE  /\ Elements(q) = {Head(q)} \cup Elements(Tail(q))
         /\ Head(q) \in Frame /\ Tail(q) \in Seq(Frame)
<1> DEFINE t == Tail(q)
<1>1. /\ Len(q) \in Nat \ {0} /\ Head(q) = q[1] /\ Head(q) \in Frame
      /\ DOMAIN q = 1 .. Len(q)
      /\ t \in Seq(Frame) /\ Len(t) = Len(q) - 1 /\ DOMAIN t = 1 .. Len(t)
      /\ \A i \in 1 .. Len(q) - 1 : t[i] = q[i + 1]
  OBVIOUS
<1> HIDE DEF t
<1>2. ASSUME NEW i \in 1 .. Len(q) PROVE q[i] \in {Head(q)} \cup Elements(t)
  <2>1. CASE i = 1
    BY <1>1, <2>1
  <2>2. CASE i # 1
    <3>1. i - 1 \in DOMAIN t /\ t[i - 1] = q[i]
      BY <1>1, <2>2
    <3>2. t[i - 1] \in Elements(t)
      BY <3>1 DEF Elements
    <3>. QED  BY <3>1, <3>2
  <2>. QED  BY <2>1, <2>2
<1>3. ASSUME NEW i \in DOMAIN t PROVE t[i] \in Elements(q)
  <2>1. i + 1 \in DOMAIN q /\ t[i] = q[i + 1]
    BY <1>1
  <2>2. q[i + 1] \in Elements(q)
    BY <2>1 DEF Elements
  <2>. QED  BY <2>1, <2>2
<1>4. Head(q) \in Elements(q)
  BY <1>1 DEF Elements
<1>5. Elements(q) \subseteq {Head(q)} \cup Elements(t)
  BY <1>1, <1>2 DEF Elements
<1>6. Elements(t) \subseteq Elements(q)
  BY <1>3 DEF Elements
<1>. QED  BY <1>1, <1>4, <1>5, <1>6 DEF t

\* A step after which the session is closed owes its peer nothing.
LEMMA DeadLocal ==
  ASSUME NEW x \in Side, NEW r \in Session, NEW q \in Session, q.closed,
         q.writer = "run" => r.writer = "run",
         \A s \in StreamId : q.handle[s] = "none" <=> r.handle[s] = "none",
         Extension(x, r, r.ctrl, q.ctrl), Extension(x, r, r.data, q.data)
  PROVE  LocalStep(x, r, q)
BY DEF LocalStep, Alive

\* A step that leaves the queues alone and gives up at most a stream whose FIN was sent.
LEMMA QuietLocal ==
  ASSUME NEW x \in Side, NEW r \in Session, NEW q \in Session,
         r.closed => q.closed, q.writer = r.writer,
         \A s \in StreamId : q.handle[s] = "none" <=> r.handle[s] = "none",
         q.ctrl = r.ctrl, q.data = r.data,
         \/ /\ q.active = r.active /\ r.flags \subseteq q.flags
            /\ "local_fin" \in q.flags => "local_fin" \in r.flags
         \/ q.active = None /\ "local_fin" \in r.flags
         \/ q.active = None /\ r.active = None
         \/ q.active = None /\ ~Alive(r)
  PROVE  LocalStep(x, r, q)
<1>1. None \notin StreamId
  BY DEF None, StreamId
<1>2. Extension(x, r, r.ctrl, q.ctrl) /\ Extension(x, r, r.data, q.data)
  BY DEF Extension
<1>. QED  BY <1>1, <1>2 DEF LocalStep, Alive

-----------------------------------------------------------------------------
(* The steps of one side, as changes of its record.                        *)

\* r and q agree on the fields the invariant is about.
SameView(r, q) ==
  /\ Keeps(r, q) /\ q.ctrl = r.ctrl /\ q.rx = r.rx /\ q.pumping = r.pumping
  /\ q.closed = r.closed /\ q.drain = r.drain
  /\ q.active = r.active /\ q.flags = r.flags

\* A step the invariant does not see.
LEMMA SameViewGood ==
  ASSUME NEW x \in Side, NEW r \in Session, NEW q \in Session, SessionOK(r), SameView(r, q)
  PROVE  Good(x, r, q)
<1>1. SessionOK(q)
  BY SameOK DEF SameView, Keeps
<1>2. LocalStep(x, r, q)
  BY QuietLocal DEF SameView, Keeps
<1>. QED  BY <1>1, <1>2 DEF Good

\* shutdown(), and the draining of the slot
LEMMA ClosingGood ==
  ASSUME NEW x \in Side, NEW r \in Session, NEW q \in Session, SessionOK(r),
         q.handle = r.handle, q.task = r.task, q.ctrl = r.ctrl, q.data = r.data,
         q.writer = r.writer, q.pumping = r.pumping,
         q.closed, q.rx = r.rx \/ q.active = None,
         q.active = None \/ (q.active = r.active /\ q.flags = r.flags)
  PROVE  Good(x, r, q)
<1>1. SessionOK(q)
  <2>1. None \notin StreamId
    BY DEF None, StreamId
  <2>2. q.rx = "end" => q.closed /\ q.active = None
    BY DEF SessionOK
  <2>. QED  BY <2>1, <2>2 DEF SessionOK, Alive
<1>2. LocalStep(x, r, q)
  BY DeadLocal DEF Extension
<1>. QED  BY <1>1, <1>2 DEF Good

\* shutdown() keeps the invariant of its session.
LEMMA ShutdownGood ==
  ASSUME NEW x \in Side, NEW r \in Session, SessionOK(r) PROVE Good(x, r, Shutdown(r))
<1>1. /\ Shutdown(r) \in Session /\ Keeps(r, Shutdown(r)) /\ Shutdown(r).ctrl = r.ctrl
      /\ Shutdown(r).pumping = r.pumping /\ Shutdown(r).closed /\ Shutdown(r).rx = r.rx
      /\ Shutdown(r).active = r.active /\ Shutdown(r).flags = r.flags
  BY ShutdownType, ZenonT(60) DEF Shutdown, Session, Keeps
<1>. QED  BY <1>1, ClosingGood DEF Keeps

\* The end of the receive loop keeps the invariant of its session.
LEMMA EndReceiveGood ==
  ASSUME NEW x \in Side, NEW r \in Session, SessionOK(r) PROVE Good(x, r, EndReceive(r))
<1>1. EndReceive(r) \in Session /\ EndReceive(r).pumping = r.pumping
  BY EndReceiveType, ZenonT(60) DEF EndReceive, Empty, Session
<1>. QED  BY <1>1, EndReceiveEffect, ClosingGood DEF Keeps

\* remove_stream_by_id of a stream whose FIN was sent, or on a session that has ended
LEMMA RemoveGood ==
  ASSUME NEW x \in Side, NEW r \in Session, NEW s \in StreamId, SessionOK(r),
         r.active = s => "local_fin" \in r.flags \/ ~Alive(r)
  PROVE  Good(x, r, Remove(r, s))
<1>1. CASE r.active # s
  BY <1>1, RemoveEffect, SameViewGood DEF SameView, Keeps
<1>2. CASE r.active = s
  <2> DEFINE q == Remove(r, s)
  <2>1. /\ q \in Session /\ Keeps(r, q) /\ q.ctrl = r.ctrl /\ q.rx = r.rx
        /\ q.pumping = r.pumping /\ q.active = None
        /\ r.closed => q.closed /\ (q.drain => r.drain \/ q.closed)
    BY <1>2, RemoveType, RemoveEffect
  <2>2. q.drain => r.drain \/ q.closed
    BY RemoveEffect
  <2> HIDE DEF q
  <2>3. SessionOK(q)
    BY <2>1, <2>2, SameOK DEF Keeps
  <2>4. LocalStep(x, r, q)
    BY <1>2, <2>1, QuietLocal DEF Keeps
  <2>. QED  BY <2>1, <2>3, <2>4 DEF Good, q
<1>. QED  BY <1>1, <1>2

\* on_stream_read_closed, called when the pump task has ended
LEMMA ReadClosedGood ==
  ASSUME NEW x \in Side, NEW r \in Session, NEW e \in Session, NEW s \in StreamId,
         SessionOK(r), Keeps(r, e), e.ctrl = r.ctrl, e.rx = r.rx, e.closed = r.closed,
         e.drain = r.drain, e.active = r.active, e.pumping = r.pumping \ {s},
         e.flags = r.flags \/ (r.active = s /\ e.flags = r.flags \cup {"remote_fin"})
  PROVE  Good(x, r, ReadClosed(e, s))
<1> DEFINE q == ReadClosed(e, s)
<1>1. q \in Session
  BY ReadClosedType
<1>2. /\ Keeps(r, q) /\ q.ctrl = r.ctrl /\ q.rx = r.rx /\ q.pumping = r.pumping \ {s}
      /\ r.closed => q.closed
      /\ q.drain => r.drain \/ q.closed
      /\ r.active # s => q = e
      /\ r.active = s => \/ q.active = None /\ "local_fin" \in r.flags
                         \/ /\ q.active = s /\ q.flags # Flag
                            /\ q.flags \subseteq r.flags \cup {"remote_fin", "read_closed"}
                            /\ r.flags \subseteq q.flags
  BY ReadClosedEffect DEF Keeps
<1> HIDE DEF q
<1>3. None \notin StreamId
  BY DEF None, StreamId
<1>4. SessionOK(q)
  <2>1. CASE r.active # s
    BY <1>2, <1>3, <2>1 DEF SessionOK, Keeps, Alive, FinishDue
  <2>2. CASE r.active = s
    BY <1>2, <1>3, <2>2 DEF SessionOK, Keeps, Alive, FinishDue
  <2>. QED  BY <2>1, <2>2
<1>5. LocalStep(x, r, q)
  BY <1>1, <1>2, QuietLocal DEF Keeps
<1>. QED  BY <1>1, <1>4, <1>5 DEF Good, q

\* A change of the call that works on s, and of its handle.
TaskChange(r, q, s) ==
  /\ q.data = r.data /\ q.writer = r.writer /\ q.ctrl = r.ctrl /\ q.rx = r.rx
  /\ q.pumping = r.pumping /\ q.closed = r.closed /\ q.drain = r.drain
  /\ q.active = r.active /\ q.flags = r.flags
  /\ r.handle[s] # "none" /\ q.handle[s] # "none"
  /\ \A t \in StreamId \ {s} : q.task[t] = r.task[t] /\ q.handle[t] = r.handle[t]

\* What the new state of the call has to satisfy.
TaskOK(r, q, s) ==
  /\ Alive(r) /\ r.active = s /\ r.flags = Flag => FinishDue(q, s)
  /\ r.active = s /\ PastFin(q.task[s]) => "local_fin" \in r.flags
  /\ q.task[s].call = "open" /\ q.task[s].pc = "err" => ~Alive(r)

\* A step may be followed by a change of the call that works on a stream.
LEMMA TaskGood ==
  ASSUME NEW x \in Side, NEW r \in Session, NEW e \in Session, NEW q \in Session,
         NEW s \in StreamId, Good(x, r, e), TaskChange(e, q, s), TaskOK(e, q, s)
  PROVE  Good(x, r, q)
<1>1. SessionOK(q)
  <2>1. /\ q.rx = "end" => q.closed /\ q.active = None
        /\ q.writer = "off" => q.closed
        /\ q.drain => q.closed
    BY DEF Good, SessionOK, TaskChange
  <2>2. ASSUME NEW t \in StreamId
        PROVE  /\ q.active = t /\ "read_closed" \in q.flags => t \notin q.pumping
               /\ Alive(q) /\ q.active = t /\ q.flags = Flag => FinishDue(q, t)
               /\ q.active = t /\ PastFin(q.task[t]) => "local_fin" \in q.flags
               /\ q.task[t].call = "open" /\ q.task[t].pc = "err" => ~Alive(q)
               /\ q.handle[t] = "none" => q.active # t /\ q.task[t] = NoTask
    <3>1. CASE t = s
      BY <3>1 DEF Good, SessionOK, TaskChange, TaskOK, Alive
    <3>2. CASE t # s
      BY <3>2 DEF Good, SessionOK, TaskChange, Alive, FinishDue
    <3>. QED  BY <3>1, <3>2
  <2>. QED  BY <2>1, <2>2 DEF SessionOK
<1>2. LocalStep(x, r, q)
  <2>1. \A t \in StreamId : q.handle[t] = "none" <=> e.handle[t] = "none"
    BY DEF TaskChange
  <2>2. Alive(q) <=> Alive(e)
    BY DEF TaskChange, Alive
  <2>. QED  BY <2>1, <2>2 DEF LocalStep, Good, TaskChange
<1>. QED  BY <1>1, <1>2 DEF Good

\* A frame of a stream in use goes to the data queue.
LEMMA DataGood ==
  ASSUME NEW x \in Side, NEW r \in Session, NEW q \in Session, SessionOK(r),
         NEW s \in StreamId, NEW c \in {"Push", "Fin"}, r.handle[s] # "none",
         q.data = Append(r.data, FrameOf(c, s)),
         q.handle = r.handle, q.task = r.task, q.writer = r.writer, q.ctrl = r.ctrl,
         q.rx = r.rx, q.pumping = r.pumping, q.closed = r.closed, q.drain = r.drain,
         q.active = r.active, q.flags = r.flags
  PROVE  Good(x, r, q)
<1>1. SessionOK(q)
  BY SameOK
<1>2. Extension(x, r, r.ctrl, q.ctrl) /\ Extension(x, r, r.data, q.data)
  BY DEF Extension
<1>3. Elements(q.data) = Elements(r.data) \cup {FrameOf(c, s)}
  BY ElementsAppend, Fields, FrameType DEF Command
<1>. QED  BY <1>1, <1>2, <1>3 DEF Good, LocalStep, Alive

\* A frame of a stream in use goes to the control queue; the stream may be given up
\* when the frame is a FIN.
LEMMA CtrlGood ==
  ASSUME NEW x \in Side, NEW r \in Session, NEW q \in Session, SessionOK(r),
         NEW s \in StreamId, NEW c \in {"Fin", "Reject"}, r.handle[s] # "none",
         c = "Reject" => x = "server",
         q.ctrl = Append(r.ctrl, FrameOf(c, s)),
         Keeps(r, q), q.rx = r.rx, q.pumping = r.pumping, r.closed => q.closed,
         q.drain => r.drain \/ q.closed,
         \/ q.active = r.active /\ q.flags = r.flags
         \/ q.active = None /\ r.active \in {None, s} /\ c = "Fin"
  PROVE  Good(x, r, q)
<1>1. None \notin StreamId
  BY DEF None, StreamId
<1>2. SessionOK(q)
  BY SameOK DEF Keeps
<1>3. Extension(x, r, r.ctrl, q.ctrl) /\ Extension(x, r, r.data, q.data)
  BY DEF Extension, Keeps
<1>4. Elements(q.ctrl) = Elements(r.ctrl) \cup {FrameOf(c, s)}
  BY ElementsAppend, Fields, FrameType DEF Command
<1>. QED  BY <1>1, <1>2, <1>3, <1>4 DEF Good, LocalStep, Alive, Keeps

\* queue_control(FIN)?; remove_stream_by_id
LEMMA ResetGood ==
  ASSUME NEW x \in Side, NEW r \in Session, NEW s \in StreamId, SessionOK(r), r.active = s
  PROVE  Good(x, r, QueueAndRemove(r, FrameOf("Fin", s), s))
<1> DEFINE f == FrameOf("Fin", s)
           e == QueueControl(r, f)
<1>1. f \in Frame
  BY FrameType DEF Command
<1>2. e \in Session
  BY <1>1, QueueControlType
<1>3. CASE e.rx = "end"
  <2>1. QueueAndRemove(r, f, s) = e
    BY <1>3 DEF QueueAndRemove
  <2>2. r.rx # "end"
    <3>. None \notin StreamId
      BY DEF None, StreamId
    <3>. QED  BY DEF SessionOK
  <2>3. e = EndReceive(r)
    BY <1>1, <1>3, <2>2, QueueControlEffect
  <2>. QED  BY <2>1, <2>3, EndReceiveGood
<1>4. CASE e.rx # "end"
  <2>1. QueueAndRemove(r, f, s) = Remove(e, s)
    BY <1>4 DEF QueueAndRemove
  <2>2. /\ Keeps(r, e) /\ e.ctrl = Append(r.ctrl, f) /\ e.rx = r.rx
        /\ e.closed = r.closed /\ e.drain = r.drain /\ e.active = s
        /\ e.pumping = r.pumping
    BY <1>1, <1>4, QueueControlEffect, EndReceiveEffect
  <2> DEFINE q == Remove(e, s)
  <2>3. /\ q \in Session /\ Keeps(r, q) /\ q.ctrl = Append(r.ctrl, f) /\ q.rx = r.rx
        /\ q.pumping = r.pumping /\ q.active = None
        /\ r.closed => q.closed
    BY <1>2, <2>2, RemoveType, RemoveEffect DEF Keeps
  <2>4. q.drain => r.drain \/ q.closed
    BY <1>2, <2>2, RemoveEffect
  <2>5. r.handle[s] # "none"
    BY DEF SessionOK
  <2> HIDE DEF q, e
  <2>6. Good(x, r, q)
    BY <2>3, <2>4, <2>5, CtrlGood
  <2>. QED  BY <2>1, <2>6 DEF q, e
<1>. QED  BY <1>3, <1>4

\* The invariant does not see what is in a push channel.
LEMMA PumpAppend ==
  ASSUME NEW r \in Session, NEW s \in StreamId, NEW m \in {"Data", "Fin"}
  PROVE  /\ [r EXCEPT !.pump[s] = Append(@, m)] \in Session
         /\ SameView(r, [r EXCEPT !.pump[s] = Append(@, m)])
<1>1. Append(r.pump[s], m) \in Seq({"Data", "Fin"})
  BY Fields
<1>2. [r EXCEPT !.pump[s] = Append(@, m)] \in Session
  BY Zenon, <1>1, PumpType
<1>. QED  BY Zenon, <1>2 DEF SameView, Keeps, Session

\* The handler of PSH keeps the invariant: it queues, resets or drops.
LEMMA OnPushGood ==
  ASSUME NEW x \in Side, NEW r \in Session, NEW s \in StreamId, SessionOK(r)
  PROVE  Good(x, r, OnPush(r, s))
<1>1. \/ OnPush(r, s) = r
      \/ r.active = s /\ OnPush(r, s) = QueueAndRemove(r, FrameOf("Fin", s), s)
      \/ OnPush(r, s) = [r EXCEPT !.pump[s] = Append(@, "Data")]
  BY DEF OnPush
<1>2. Good(x, r, r)
  BY SameViewGood DEF SameView, Keeps
<1>. QED  BY Zenon, <1>1, <1>2, ResetGood, PumpAppend, SameViewGood

\* The receiver of a FIN records it.
LEMMA OnFinGood ==
  ASSUME NEW x \in Side, NEW r \in Session, NEW s \in StreamId, SessionOK(r)
  PROVE  /\ Good(x, r, OnFin(r, s))
         /\ OnFin(r, s).active = s => "remote_fin" \in OnFin(r, s).flags
<1>1. CASE r.active # s \/ "remote_fin" \in r.flags
  <2>1. OnFin(r, s) = r
    BY <1>1 DEF OnFin
  <2>. QED  BY <1>1, <2>1, SameViewGood DEF SameView, Keeps
<1>2. CASE r.active = s /\ "remote_fin" \notin r.flags
  <2> DEFINE e == [r EXCEPT !.flags = @ \cup {"remote_fin"}]
  <2>1. e \in Session
    BY Zenon, FlagType DEF Flag
  <2>2. /\ Keeps(r, e) /\ e.ctrl = r.ctrl /\ e.rx = r.rx /\ e.closed = r.closed
        /\ e.drain = r.drain /\ e.active = s /\ e.pumping = r.pumping
        /\ e.flags = r.flags \cup {"remote_fin"}
    BY <1>2 DEF Keeps, Session
  <2>3. \/ s \notin r.pumping /\ OnFin(r, s) = ReadClosed(e, s)
        \/ s \in r.pumping /\ OnFin(r, s) = [e EXCEPT !.pump[s] = Append(@, "Fin")]
        \/ s \in r.pumping /\ OnFin(r, s) = [e EXCEPT !.late = @ \cup {s}]
    BY <1>2 DEF OnFin, Session
  <2>4. /\ [e EXCEPT !.late = @ \cup {s}] \in Session
        /\ SameView(e, [e EXCEPT !.late = @ \cup {s}])
    BY <2>1, ZenonT(60) DEF Session, SameView, Keeps
  <2> HIDE DEF e
  <2>5. CASE s \notin r.pumping
    <3>1. e.pumping = r.pumping \ {s}
      BY <2>2, <2>5
    <3>2. Good(x, r, ReadClosed(e, s))
      BY <1>2, <2>1, <2>2, <3>1, ReadClosedGood
    <3>3. ReadClosed(e, s).active = s => "remote_fin" \in ReadClosed(e, s).flags
      <4>. None \notin StreamId
        BY DEF None, StreamId
      <4>. QED  BY <2>1, <2>2, ReadClosedEffect
    <3>. QED  BY <2>3, <2>5, <3>2, <3>3
  <2>6. CASE s \in r.pumping
    <3>1. PICK q \in Session : SameView(e, q) /\ OnFin(r, s) = q
      BY Zenon, <2>1, <2>3, <2>4, <2>6, PumpAppend
    <3>2. "read_closed" \notin r.flags
      BY <1>2, <2>6 DEF SessionOK
    <3>3. SessionOK(q)
      BY <1>2, <2>2, <3>1, <3>2 DEF SessionOK, SameView, Keeps, Alive, FinishDue, Flag
    <3>4. LocalStep(x, r, q)
      BY <1>2, <2>2, <3>1, QuietLocal DEF SameView, Keeps
    <3>. QED  BY <2>2, <3>1, <3>3, <3>4 DEF Good, SameView
  <2>. QED  BY <2>5, <2>6
<1>. QED  BY <1>1, <1>2

\* The FIN of a close, a drop or a shutdown_write.
LEMMA EnqueueFinGood ==
  ASSUME NEW x \in Side, NEW r \in Session, NEW s \in StreamId, SessionOK(r), r.active = s,
         NEW h \in {"none", "opening", "incoming", "open", "closed", "dropped"}, h # "none",
         NEW call \in {"shutdown_write", "close", "drop"}, NEW seen \in BOOLEAN,
         "remote_fin" \in r.flags => seen
  PROVE  /\ Good(x, r, [EnqueueFin(r, s, call, seen) EXCEPT !.handle[s] = h])
         /\ Good(x, r, EnqueueFin(r, s, call, seen))
<1> DEFINE q == EnqueueFin(r, s, call, seen)
           p == [q EXCEPT !.handle[s] = h]
           f == FrameOf("Fin", s)
           t == TaskOf(call, "wait", seen)
<1>1. t \in Task /\ t.call = call /\ t.pc = "wait" /\ t.flag = seen
  BY DEF TaskOf, Task
<1>2. f \in Frame /\ Append(r.data, f) \in Seq(Frame)
  BY FrameType, Fields DEF Command
<1>3. /\ q \in Session
      /\ q.handle = r.handle /\ q.writer = r.writer /\ q.ctrl = r.ctrl
      /\ q.rx = r.rx /\ q.pumping = r.pumping /\ q.closed = r.closed /\ q.drain = r.drain
      /\ q.active = r.active /\ q.flags = r.flags \cup {"local_fin"}
      /\ q.task = [r.task EXCEPT ![s] = t]
      /\ q.data = IF r.writer = "off" THEN r.data ELSE Append(r.data, f)
  <2> HIDE DEF t, f
  <2>1. \A d \in Seq(Frame) :
          [r EXCEPT !.flags = @ \cup {"local_fin"}, !.task[s] = t, !.data = d] \in Session
    BY Zenon, <1>1 DEF Session, Flag
  <2>2. r.data \in Seq(Frame)
    BY Fields
  <2> DEFINE d == IF r.writer = "off" THEN r.data ELSE Append(r.data, f)
  <2>3. q = [r EXCEPT !.flags = @ \cup {"local_fin"}, !.task[s] = t, !.data = d]
    BY DEF EnqueueFin, t, f, Session
  <2>4. d \in Seq(Frame)
    BY <1>2, <2>2
  <2> HIDE DEF d, q
  <2>5. q \in Session
    BY Zenon, <2>1, <2>3, <2>4
  <2>6. q.data = d
    BY <2>3 DEF Session
  <2>. QED  BY <2>3, <2>5, <2>6 DEF Session, d
<1> HIDE DEF q, t, f
<1>4. /\ p \in Session
      /\ p.writer = q.writer /\ p.ctrl = q.ctrl /\ p.data = q.data
      /\ p.rx = q.rx /\ p.pumping = q.pumping /\ p.closed = q.closed /\ p.drain = q.drain
      /\ p.active = q.active /\ p.flags = q.flags /\ p.task = q.task
      /\ p.handle = [q.handle EXCEPT ![s] = h]
  <2>1. q \in Session
    BY <1>3
  <2>2. p \in Session
    BY Zenon, <2>1, HandleType
  <2>. QED  BY <2>1, <2>2, ZenonT(60) DEF Session
<1>5. /\ q.task[s] = t /\ \A u \in StreamId \ {s} : q.task[u] = r.task[u]
      /\ p.handle[s] = h /\ \A u \in StreamId \ {s} : p.handle[u] = r.handle[u]
  BY <1>3, <1>4 DEF Session
<1>6. r.handle[s] # "none"
  BY DEF SessionOK
<1> HIDE DEF p
<1>7. SessionOK(q)
  <2>1. ASSUME NEW u \in StreamId
        PROVE  /\ q.active = u /\ "read_closed" \in q.flags => u \notin q.pumping
               /\ Alive(q) /\ q.active = u /\ q.flags = Flag => FinishDue(q, u)
               /\ q.active = u /\ PastFin(q.task[u]) => "local_fin" \in q.flags
               /\ q.task[u].call = "open" /\ q.task[u].pc = "err" => ~Alive(q)
               /\ q.handle[u] = "none" => q.active # u /\ q.task[u] = NoTask
    <3>1. CASE u = s
      <4>1. q.flags = Flag => seen
        BY <1>3 DEF Flag
      <4>. QED  BY <1>1, <1>3, <1>5, <1>6, <3>1, <4>1 DEF SessionOK, FinishDue
    <3>2. CASE u # s
      BY <1>3, <1>5, <3>2 DEF SessionOK, Alive, FinishDue
    <3>. QED  BY <3>1, <3>2
  <2>. QED  BY <1>3, <2>1 DEF SessionOK
<1>8. LocalStep(x, r, q)
  <2>1. CASE r.writer = "off"
    BY <1>3, <2>1, DeadLocal DEF SessionOK, Extension
  <2>2. CASE r.writer # "off"
    <3>1. Extension(x, r, r.ctrl, q.ctrl) /\ Extension(x, r, r.data, q.data)
      BY <1>3, <1>6, <2>2 DEF Extension, f
    <3>2. Elements(q.data) = Elements(r.data) \cup {f}
      BY <1>2, <1>3, <2>2, ElementsAppend, Fields
    <3>. QED  BY <1>3, <3>1, <3>2 DEF LocalStep, Alive, f
  <2>. QED  BY <2>1, <2>2
<1>9. Good(x, r, q)
  BY <1>3, <1>7, <1>8 DEF Good
<1>10. TaskChange(q, p, s) /\ TaskOK(q, p, s)
  <2>1. TaskChange(q, p, s)
    BY <1>3, <1>4, <1>5, <1>6 DEF TaskChange
  <2>2. TaskOK(q, p, s)
    BY <1>4, <1>7 DEF TaskOK, SessionOK, FinishDue
  <2>. QED  BY <2>1, <2>2
<1>11. Good(x, r, p)
  BY <1>3, <1>4, <1>9, <1>10, TaskGood
<1>. QED  BY <1>9, <1>11 DEF p, q

\* Replacing the call of a stream in use.
LEMMA TaskUpdate ==
  ASSUME NEW r \in Session, NEW s \in StreamId, NEW t \in Task, r.handle[s] # "none"
  PROVE  /\ [r EXCEPT !.task[s] = t] \in Session
         /\ TaskChange(r, [r EXCEPT !.task[s] = t], s)
         /\ [r EXCEPT !.task[s] = t].task[s] = t
<1>1. [r EXCEPT !.task[s] = t] \in Session
  BY TaskType
<1>. QED  BY ZenonT(30), <1>1 DEF Session, TaskChange

\* Replacing the handle of a stream in use.
LEMMA HandleUpdate ==
  ASSUME NEW r \in Session, NEW s \in StreamId, r.handle[s] # "none",
         NEW h \in {"none", "opening", "incoming", "open", "closed", "dropped"}, h # "none"
  PROVE  /\ [r EXCEPT !.handle[s] = h] \in Session
         /\ TaskChange(r, [r EXCEPT !.handle[s] = h], s)
         /\ [r EXCEPT !.handle[s] = h].task = r.task
<1>1. [r EXCEPT !.handle[s] = h] \in Session
  BY Zenon, HandleType
<1>. QED  BY <1>1, ZenonT(60) DEF Session, TaskChange

\* NoTask and the tasks TaskOf makes.
LEMMA TaskFields ==
  ASSUME NEW c \in {"none", "open", "shutdown_write", "close", "drop"},
         NEW p \in {"none", "spawned", "wait", "ok", "err", "retire", "shutdown"},
         NEW b \in BOOLEAN
  PROVE  /\ TaskOf(c, p, b) \in Task /\ NoTask \in Task
         /\ TaskOf(c, p, b).call = c /\ TaskOf(c, p, b).pc = p /\ TaskOf(c, p, b).flag = b
         /\ NoTask.call = "none" /\ NoTask.pc = "none" /\ NoTask.flag = FALSE
BY DEF TaskOf, Task, NoTask

\* A step of side x alone.
Local(x) ==
  \E q \in Session : /\ Good(x, ses[x], q)
                     /\ ses' = [ses EXCEPT ![x] = q] /\ wire' = wire

\* shutdown() in its two halves, the end of the writer and the expiry of a session.
LEMMA SessionStepsLocal ==
  ASSUME TypeOK, AllOK, NEW x \in Side,
         \/ Drain(x) \/ ShutdownCalled(x) \/ WriterEnd(x) \/ Expire(x) \/ ExpireCheck(x)
  PROVE  Local(x)
<1> DEFINE r == ses[x]
<1>1. r \in Session /\ SessionOK(r)
  BY DEF TypeOK, AllOK
<1> HIDE DEF r
<1>2. CASE Drain(x)
  <2> DEFINE q == [Empty(r) EXCEPT !.drain = FALSE]
  <2>1. ses' = [ses EXCEPT ![x] = q] /\ wire' = wire /\ r.drain
    BY <1>2 DEF Drain, Set, r
  <2>2. /\ q \in Session /\ Keeps(r, q) /\ q.ctrl = r.ctrl /\ q.pumping = r.pumping
        /\ q.closed = r.closed /\ q.active = None
    BY Zenon, <1>1 DEF Empty, Session, Keeps
  <2>3. r.closed
    BY <1>1, <2>1 DEF SessionOK
  <2> HIDE DEF q
  <2>4. Good(x, r, q)
    BY Zenon, <1>1, <2>2, <2>3, ClosingGood DEF Keeps
  <2>. QED  BY Zenon, <2>1, <2>2, <2>4 DEF Local, r
<1>3. CASE ShutdownCalled(x)
  <2>1. ses' = [ses EXCEPT ![x] = Shutdown(r)] /\ wire' = wire
    BY <1>3 DEF ShutdownCalled, Set, r
  <2>. QED  BY Zenon, <1>1, <2>1, ShutdownGood, ShutdownType DEF Local, r
<1>4. CASE WriterEnd(x)
  <2> DEFINE q == [r EXCEPT !.writer = "off", !.closed = TRUE, !.ctrl = << >>, !.data = << >>]
  <2>1. ses' = [ses EXCEPT ![x] = q] /\ wire' = wire
    BY <1>4 DEF WriterEnd, Set, r
  <2>2. q \in Session
    <3>1. << >> \in Seq(Frame)
      OBVIOUS
    <3>. QED  BY Zenon, <1>1, <3>1 DEF Session
  <2>3. /\ q.writer = "off" /\ q.closed /\ q.ctrl = << >> /\ q.data = << >>
        /\ q.handle = r.handle /\ q.task = r.task /\ q.rx = r.rx /\ q.pumping = r.pumping
        /\ q.drain = r.drain /\ q.active = r.active /\ q.flags = r.flags
    BY <1>1 DEF Session
  <2> HIDE DEF q
  <2>4. SessionOK(q)
    BY <1>1, <2>3 DEF SessionOK, Alive, FinishDue
  <2>5. LocalStep(x, r, q)
    BY <1>1, <2>2, <2>3, DeadLocal DEF Extension
  <2>. QED  BY Zenon, <2>1, <2>2, <2>4, <2>5 DEF Local, Good, r
<1>5. CASE Expire(x)
  <2> DEFINE q == [r EXCEPT !.age = "expired"]
  <2>1. ses' = [ses EXCEPT ![x] = q] /\ wire' = wire
    BY <1>5 DEF Expire, Set, r
  <2>2. q \in Session /\ SameView(r, q)
    BY Zenon, <1>1 DEF Session, SameView, Keeps
  <2>. QED  BY Zenon, <1>1, <2>1, <2>2, SameViewGood DEF Local, r
<1>6. CASE ExpireCheck(x)
  <2> DEFINE e == [r EXCEPT !.age = "checked"]
  <2>1. /\ \/ ses' = [ses EXCEPT ![x] = Shutdown(e)]
           \/ ses' = [ses EXCEPT ![x] = e]
        /\ wire' = wire
    BY Zenon, <1>6 DEF ExpireCheck, Set, r
  <2>2. e \in Session /\ SameView(r, e)
    BY Zenon, <1>1 DEF Session, SameView, Keeps
  <2> HIDE DEF e
  <2>3. Good(x, r, e)
    BY <1>1, <2>2, SameViewGood
  <2>4. Shutdown(e) \in Session
    BY <2>2, ShutdownType
  <2>5. Good(x, r, Shutdown(e))
    <3>1. /\ Keeps(e, Shutdown(e)) /\ Shutdown(e).ctrl = e.ctrl
          /\ Shutdown(e).pumping = e.pumping /\ Shutdown(e).closed /\ Shutdown(e).rx = e.rx
          /\ Shutdown(e).active = e.active /\ Shutdown(e).flags = e.flags
      BY <2>2 DEF Shutdown, Session, Keeps
    <3>. QED  BY <1>1, <2>2, <2>4, <3>1, ClosingGood DEF SameView, Keeps
  <2>. QED  BY <2>1, <2>2, <2>3, <2>4, <2>5 DEF Local, r
<1>. QED  BY <1>2, <1>3, <1>4, <1>5, <1>6

\* The pump task, and the task that queues a FIN late.
LEMMA PumpStepsLocal ==
  ASSUME TypeOK, AllOK, NEW x \in Side, NEW s \in StreamId,
         PumpData(x, s) \/ PumpFin(x, s) \/ PumpEnd(x, s) \/ LateFin(x, s)
  PROVE  Local(x)
<1> DEFINE r == ses[x]
           p == StopPump(r, s)
           e == [r EXCEPT !.late = @ \ {s}]
<1>1. r \in Session /\ SessionOK(r)
  BY DEF TypeOK, AllOK
<1> HIDE DEF r
<1>2. /\ p \in Session /\ Keeps(r, p) /\ p.ctrl = r.ctrl /\ p.rx = r.rx
      /\ p.closed = r.closed /\ p.drain = r.drain /\ p.active = r.active
      /\ p.flags = r.flags /\ p.pumping = r.pumping \ {s}
  <2>1. p \in Session
    BY <1>1, StopPumpType
  <2>. QED  BY <1>1, <2>1 DEF StopPump, Session, Keeps
<1>3. e \in Session /\ SameView(r, e)
  <2>1. e \in Session
    BY Zenon, <1>1 DEF Session
  <2>. QED  BY Zenon, <1>1, <2>1 DEF Session, SameView, Keeps
<1> HIDE DEF p, e
<1>4. Good(x, r, p)
  <2>1. SessionOK(p)
    BY <1>1, <1>2, SMTT(30) DEF SessionOK, Keeps, Alive, FinishDue
  <2>2. LocalStep(x, r, p)
    BY <1>1, <1>2, QuietLocal DEF Keeps
  <2>. QED  BY <1>2, <2>1, <2>2 DEF Good
<1>5. Good(x, r, ReadClosed(p, s)) /\ ReadClosed(p, s) \in Session
  BY <1>1, <1>2, ReadClosedGood, ReadClosedType
<1>6. Good(x, r, e)
  BY <1>1, <1>3, SameViewGood
<1>7. CASE PumpData(x, s)
  <2> DEFINE q == [r EXCEPT !.pump[s] = Tail(@)]
  <2>1. /\ \/ ses' = [ses EXCEPT ![x] = q]
           \/ ses' = [ses EXCEPT ![x] = ReadClosed(p, s)]
           \/ ses' = [ses EXCEPT ![x] = p]
        /\ wire' = wire /\ r.pump[s] # << >>
    BY <1>7 DEF PumpData, Set, r, p
  <2>2. q \in Session
    <3>1. Tail(r.pump[s]) \in Seq({"Data", "Fin"})
      BY <1>1, <2>1, Fields
    <3>. QED  BY Zenon, <1>1, <3>1, PumpType
  <2>3. SameView(r, q)
    BY <1>1 DEF Session, SameView, Keeps
  <2> HIDE DEF q
  <2>4. Good(x, r, q)
    BY <1>1, <2>2, <2>3, SameViewGood
  <2>. QED  BY <1>2, <1>4, <1>5, <2>1, <2>2, <2>4 DEF Local, r
<1>8. CASE PumpFin(x, s)
  <2>1. ses' = [ses EXCEPT ![x] = ReadClosed(p, s)] /\ wire' = wire
    BY <1>8 DEF PumpFin, Set, r, p
  <2>. QED  BY Zenon, <1>5, <2>1 DEF Local, r
<1>9. CASE PumpEnd(x, s)
  <2>1. ses' = [ses EXCEPT ![x] = p] /\ wire' = wire
    BY <1>9 DEF PumpEnd, Set, r, p
  <2>. QED  BY Zenon, <1>2, <1>4, <2>1 DEF Local, r
<1>10. CASE LateFin(x, s)
  <2> DEFINE q == [e EXCEPT !.pump[s] = Append(@, "Fin")]
  <2>1. /\ \/ ses' = [ses EXCEPT ![x] = e]
           \/ ses' = [ses EXCEPT ![x] = q]
           \/ s \notin r.pumping /\ ses' = [ses EXCEPT ![x] = ReadClosed(e, s)]
        /\ wire' = wire
    BY <1>10 DEF LateFin, Set, r, e
  <2>2. q \in Session /\ SameView(e, q)
    BY Zenon, <1>3, PumpAppend
  <2> HIDE DEF q
  <2>3. SameView(r, q)
    BY <1>3, <2>2 DEF SameView, Keeps
  <2>4. Good(x, r, q)
    BY <1>1, <2>2, <2>3, SameViewGood
  <2>5. ASSUME s \notin r.pumping
        PROVE  Good(x, r, ReadClosed(e, s)) /\ ReadClosed(e, s) \in Session
    <3>1. e.pumping = r.pumping \ {s}
      BY <1>3, <2>5 DEF SameView
    <3>. QED  BY <1>1, <1>3, <3>1, ReadClosedGood, ReadClosedType DEF SameView
  <2>. QED  BY <1>3, <1>6, <2>1, <2>2, <2>4, <2>5 DEF Local, r
<1>. QED  BY <1>7, <1>8, <1>9, <1>10

\* The first halves of shutdown_write, close and drop, and their cancellation.
LEMMA CallStepsLocal ==
  ASSUME TypeOK, AllOK, NEW x \in Side, NEW s \in StreamId,
         \/ WaitCancelled(x, s) \/ ShutdownWrite(x, s) \/ Close(x, s)
         \/ Drop(x, s) \/ DropHelper(x, s)
  PROVE  Local(x)
<1> DEFINE r == ses[x]
<1>1. r \in Session /\ SessionOK(r) /\ r.task[s] \in Task
  BY Fields DEF TypeOK, AllOK
<1>2. Good(x, r, r)
  BY <1>1, SameViewGood DEF SameView, Keeps
<1> HIDE DEF r
<1>3. CASE WaitCancelled(x, s)
  <2> DEFINE t == [r.task[s] EXCEPT !.pc = "err"]
             q == [r EXCEPT !.task[s] = t]
  <2>1. /\ ses' = [ses EXCEPT ![x] = q] /\ wire' = wire
        /\ r.closed /\ r.task[s].pc = "wait"
    BY <1>1, <1>3 DEF WaitCancelled, Set, r, Session
  <2>2. t \in Task /\ t.call = r.task[s].call /\ t.pc = "err"
    BY <1>1 DEF Task
  <2>3. r.handle[s] # "none"
    BY <1>1, <2>1 DEF SessionOK, NoTask, TaskOf
  <2> HIDE DEF t
  <2>4. q \in Session /\ TaskChange(r, q, s) /\ q.task[s] = t
    BY <1>1, <2>2, <2>3, TaskUpdate
  <2> HIDE DEF q
  <2>5. TaskOK(r, q, s)
    BY <1>1, <2>1, <2>2, <2>4 DEF TaskOK, SessionOK, Alive, PastFin
  <2>. QED  BY Zenon, <1>1, <1>2, <2>1, <2>4, <2>5, TaskGood DEF Local, r
<1>4. CASE ShutdownWrite(x, s)
  <2> DEFINE b == "remote_fin" \in r.flags
             q == EnqueueFin(r, s, "shutdown_write", b)
  <2>1. ses' = [ses EXCEPT ![x] = q] /\ wire' = wire /\ r.active = s
    BY <1>4 DEF ShutdownWrite, Set, r
  <2>2. b \in BOOLEAN /\ ("remote_fin" \in r.flags => b)
    OBVIOUS
  <2> HIDE DEF b
  <2>3. Good(x, r, q)
    BY Zenon, <1>1, <2>1, <2>2, EnqueueFinGood
  <2>. QED  BY Zenon, <2>1, <2>3 DEF Local, Good, r
<1>5. CASE Drop(x, s)
  <2> DEFINE t == TaskOf("drop", "spawned", FALSE)
             q == [r EXCEPT !.handle[s] = "dropped", !.task[s] = t]
  <2>1. ses' = [ses EXCEPT ![x] = q] /\ wire' = wire /\ r.handle[s] # "none"
    BY <1>5 DEF Drop, Set, r
  <2>2. t \in Task /\ t.call = "drop" /\ t.pc = "spawned"
    BY Zenon, TaskFields
  <2> HIDE DEF t
  <2>3. q \in Session /\ TaskChange(r, q, s) /\ q.task[s] = t
    <3>1. q \in Session
      BY Zenon, <1>1, <2>2 DEF Session
    <3>. QED  BY <1>1, <2>1, <2>2, <3>1 DEF Session, TaskChange
  <2> HIDE DEF q
  <2>4. TaskOK(r, q, s)
    BY <2>2, <2>3 DEF TaskOK, FinishDue, PastFin
  <2>. QED  BY Zenon, <1>1, <1>2, <2>1, <2>3, <2>4, TaskGood DEF Local, r
<1>6. CASE DropHelper(x, s)
  <2> DEFINE t == TaskOf("drop", "ok", TRUE)
             q == [r EXCEPT !.task[s] = t]
             e == EnqueueFin(r, s, "drop", TRUE)
  <2>1. /\ wire' = wire /\ r.task[s].pc = "spawned"
        /\ \/ r.active = s /\ ses' = [ses EXCEPT ![x] = e]
           \/ (r.active # s \/ "local_fin" \in r.flags) /\ ses' = [ses EXCEPT ![x] = q]
    BY Zenon, <1>6 DEF DropHelper, Set, r
  <2>2. t \in Task /\ t.call = "drop" /\ t.pc = "ok" /\ t.flag
    BY Zenon, TaskFields
  <2>3. r.handle[s] # "none"
    BY <1>1, <2>1 DEF SessionOK, NoTask, TaskOf
  <2> HIDE DEF t
  <2>4. q \in Session /\ TaskChange(r, q, s) /\ q.task[s] = t
    BY <1>1, <2>2, <2>3, TaskUpdate
  <2> HIDE DEF q
  <2>5. ASSUME r.active # s \/ "local_fin" \in r.flags PROVE Good(x, r, q)
    <3>1. TaskOK(r, q, s)
      BY <2>2, <2>4, <2>5 DEF TaskOK, FinishDue
    <3>. QED  BY <1>1, <1>2, <2>4, <3>1, TaskGood
  <2>6. ASSUME r.active = s PROVE Good(x, r, e)
    BY Zenon, <1>1, <2>6, EnqueueFinGood
  <2>. QED  BY Zenon, <2>1, <2>5, <2>6 DEF Local, Good, r
<1>7. CASE Close(x, s)
  <2> DEFINE t1 == TaskOf("close", "err", FALSE)
             t2 == TaskOf("close", "ok", FALSE)
             q0 == [r EXCEPT !.handle[s] = "closed"]
             q1 == [r EXCEPT !.task[s] = t1]
             q2 == [r EXCEPT !.task[s] = t2]
             b == "remote_fin" \in r.flags
             q3 == EnqueueFin(r, s, "close", b)
  <2>1. /\ wire' = wire /\ r.handle[s] = "open" /\ r.task[s] = NoTask
        /\ \/ ses' = [ses EXCEPT ![x] = q0]
           \/ r.active # s /\ ses' = [ses EXCEPT ![x] = [q1 EXCEPT !.handle[s] = "closed"]]
           \/ /\ r.active = s /\ "local_fin" \in r.flags
              /\ ses' = [ses EXCEPT ![x] = [q2 EXCEPT !.handle[s] = "closed"]]
           \/ r.active = s /\ ses' = [ses EXCEPT ![x] = [q3 EXCEPT !.handle[s] = "closed"]]
    BY Zenon, <1>7 DEF Close, Set, r
  <2>2. /\ t1 \in Task /\ t1.call = "close" /\ t1.pc = "err"
        /\ t2 \in Task /\ t2.call = "close" /\ t2.pc = "ok"
        /\ NoTask.call = "none" /\ NoTask.pc = "none"
    BY TaskFields, ZenonT(60)
  <2>3. Alive(r) /\ r.active = s => r.flags # Flag
    BY <1>1, <2>1, <2>2 DEF SessionOK, FinishDue
  <2> HIDE DEF t1, t2
  <2>4. /\ q0 \in Session /\ TaskChange(r, q0, s) /\ q0.task = r.task
        /\ q1 \in Session /\ TaskChange(r, q1, s) /\ q1.task[s] = t1
        /\ q2 \in Session /\ TaskChange(r, q2, s) /\ q2.task[s] = t2
    BY Zenon, <1>1, <2>1, <2>2, TaskUpdate, HandleUpdate
  <2> HIDE DEF q0, q1, q2
  <2>5. Good(x, r, q0)
    <3>1. TaskOK(r, q0, s)
      BY <2>1, <2>2, <2>3, <2>4 DEF TaskOK, PastFin
    <3>. QED  BY <1>1, <1>2, <2>4, <3>1, TaskGood
  <2>6. ASSUME NEW q \in {q1, q2}, Good(x, r, q)
        PROVE  Good(x, r, [q EXCEPT !.handle[s] = "closed"])
    <3> DEFINE p == [q EXCEPT !.handle[s] = "closed"]
    <3>1. q \in Session /\ q.handle[s] # "none" /\ SessionOK(q)
      BY <2>4, <2>6 DEF TaskChange, Good
    <3>2. p \in Session /\ TaskChange(q, p, s) /\ p.task = q.task
      BY Zenon, <1>1, <3>1, HandleUpdate
    <3> HIDE DEF p
    <3>3. TaskOK(q, p, s)
      BY <3>1, <3>2 DEF TaskOK, SessionOK, FinishDue
    <3>4. Good(x, r, p)
      BY <1>1, <2>6, <3>1, <3>2, <3>3, TaskGood
    <3>. QED  BY <3>4 DEF p
  <2>7. ASSUME r.active # s PROVE Good(x, r, q1)
    <3>1. TaskOK(r, q1, s)
      BY <2>2, <2>4, <2>7 DEF TaskOK
    <3>. QED  BY <1>1, <1>2, <2>4, <3>1, TaskGood
  <2>8. ASSUME "local_fin" \in r.flags PROVE Good(x, r, q2)
    <3>1. TaskOK(r, q2, s)
      BY <2>2, <2>3, <2>4, <2>8 DEF TaskOK
    <3>. QED  BY <1>1, <1>2, <2>4, <3>1, TaskGood
  <2>9. ASSUME r.active = s PROVE Good(x, r, [q3 EXCEPT !.handle[s] = "closed"])
    <3>1. b \in BOOLEAN /\ ("remote_fin" \in r.flags => b)
      OBVIOUS
    <3> HIDE DEF b
    <3>. QED  BY <1>1, <2>9, <3>1, EnqueueFinGood
  <2> HIDE DEF q3
  <2>. QED  BY <2>1, <2>5, <2>6, <2>7, <2>8, <2>9 DEF Local, Good, r
<1>. QED  BY <1>3, <1>4, <1>5, <1>6, <1>7

\* The second halves of shutdown_write, close and drop, and Stream::write.
LEMMA EndStepsLocal ==
  ASSUME TypeOK, AllOK, NEW x \in Side, NEW s \in StreamId,
         FinDone(x, s) \/ Retire(x, s) \/ WriteData(x, s)
  PROVE  Local(x)
<1> DEFINE r == ses[x]
<1>1. r \in Session /\ SessionOK(r) /\ r.task[s] \in Task
  BY Fields DEF TypeOK, AllOK
<1>2. Good(x, r, r)
  BY <1>1, SameViewGood DEF SameView, Keeps
<1>3. /\ NoTask \in Task /\ NoTask.call = "none" /\ NoTask.pc = "none" /\ ~NoTask.flag
  BY Zenon, TaskFields
<1> HIDE DEF r
<1>4. CASE FinDone(x, s)
  <2> DEFINE t == r.task[s]
             fin == t.flag /\ (t.pc = "ok" \/ t.call = "drop")
             e == IF fin THEN Finish(r, s) ELSE r
             u == IF t.call = "shutdown_write" THEN NoTask ELSE TaskOf(t.call, "retire", t.pc = "ok")
             q == [e EXCEPT !.task[s] = u]
  <2>1. /\ wire' = wire /\ ses' = [ses EXCEPT ![x] = q]
        /\ t.call \in {"shutdown_write", "close", "drop"} /\ t.pc \in {"ok", "err"}
    BY <1>4 DEF FinDone, Set, r
  <2>2. /\ u \in Task /\ u.pc \in {"none", "retire"} /\ u.call # "open"
        /\ PastFin(u) => t.call \in {"close", "drop"}
    <3> DEFINE b == t.pc = "ok"
    <3>1. b \in BOOLEAN
      OBVIOUS
    <3>2. CASE t.call = "shutdown_write"
      BY <1>3, <3>2 DEF PastFin
    <3>3. CASE t.call # "shutdown_write"
      <4>1. u = TaskOf(t.call, "retire", b)
        BY <3>3
      <4>2. t.call \in {"close", "drop"}
        BY <2>1, <3>3
      <4> HIDE DEF b, u, t
      <4>3. u \in Task /\ u.pc = "retire" /\ u.call = t.call
        BY <3>1, <4>1, <4>2 DEF TaskOf, Task
      <4>4. u.call # "open"
        BY <4>2, <4>3
      <4>. QED  BY <4>2, <4>3, <4>4
    <3>. QED  BY Zenon, <3>2, <3>3
  <2>3. e = r \/ (r.active = s /\ r.flags = Flag /\ e = Remove(r, s))
    BY SMTT(30), <1>1, FinishEffect
  <2>4. /\ e \in Session /\ Good(x, r, e)
        /\ e.task = r.task /\ e.handle = r.handle
        /\ e.active = s => e = r
    <3>1. CASE e = r
      BY <1>1, <1>2, <3>1
    <3>2. CASE r.active = s /\ r.flags = Flag /\ e = Remove(r, s)
      <4>1. "local_fin" \in r.flags /\ None \notin StreamId
        BY <3>2 DEF Flag, None, StreamId
      <4> DEFINE v == Remove(r, s)
      <4>2. Good(x, r, v)
        BY <1>1, <3>2, <4>1, RemoveGood
      <4>3. v \in Session
        BY <1>1, RemoveType
      <4>4. v.task = r.task /\ v.handle = r.handle
        BY <1>1, RemoveEffect DEF Keeps
      <4>5. v.active # s
        BY <1>1, <3>2, <4>1, RemoveEffect
      <4> HIDE DEF v, e
      <4>. QED  BY <3>2, <4>2, <4>3, <4>4, <4>5 DEF v
    <3>. QED  BY ZenonT(30), <2>3, <3>1, <3>2
  <2>5. r.handle[s] # "none"
    BY <1>1, <1>3, <2>1 DEF SessionOK
  <2>6. e.active = s /\ e.flags = Flag /\ Alive(e) => FALSE
    <3> SUFFICES ASSUME e.active = s, e.flags = Flag, Alive(e) PROVE FALSE
      BY SMTT(30)
    <3>1. e = r /\ FinishDue(r, s)
      BY Zenon, <1>1, <2>4 DEF SessionOK
    <3>2. fin
      BY SMTT(30), <2>1, <3>1 DEF FinishDue
    <3>3. e = Remove(r, s) /\ r.active = s
      BY <3>1, <3>2 DEF Finish
    <3>4. e.active = None /\ None \notin StreamId
      BY <1>1, <3>3, RemoveEffect, SMTT(30) DEF None, StreamId
    <3>. QED  BY <3>4
  <2> HIDE DEF e, u
  <2>7. q \in Session /\ TaskChange(e, q, s) /\ q.task[s] = u
    BY <2>2, <2>4, <2>5, TaskUpdate
  <2>8. TaskOK(e, q, s)
    <3>1. e.active = s /\ PastFin(u) => "local_fin" \in e.flags
      <4> SUFFICES ASSUME e.active = s, PastFin(u) PROVE "local_fin" \in e.flags
        OBVIOUS
      <4>1. PastFin(r.task[s]) /\ e = r
        BY <2>1, <2>2, <2>4 DEF PastFin
      <4>. QED  BY <1>1, <4>1 DEF SessionOK
    <3>. QED  BY <2>2, <2>6, <2>7, <3>1 DEF TaskOK
  <2> HIDE DEF q
  <2>9. Good(x, r, q)
    BY SMTT(30), <1>1, <2>4, <2>7, <2>8, TaskGood
  <2>. QED  BY ZenonT(30), <2>1, <2>7, <2>9 DEF Local, r
<1>5. CASE Retire(x, s)
  <2> DEFINE e == FinishOrRetire(x, r, s, r.task[s].flag)
             q == [e EXCEPT !.task[s] = NoTask]
  <2>1. wire' = wire /\ ses' = [ses EXCEPT ![x] = q] /\ r.task[s].pc = "retire"
    BY <1>5 DEF Retire, Set, r
  <2>2. r.active = s => "local_fin" \in r.flags
    BY <1>1, <2>1 DEF SessionOK, PastFin
  <2>3. r.handle[s] # "none"
    BY <1>1, <1>3, <2>1 DEF SessionOK
  <2>4. /\ e \in Session /\ Good(x, r, e) /\ e.task = r.task /\ e.handle = r.handle
    <3> DEFINE w == IF r.active = s THEN {s} ELSE r.timer
               p == [r EXCEPT !.timer = w]
    <3>1. \/ e = Remove(r, s)
          \/ e = Shutdown(r)
          \/ e = p
      BY <1>1 DEF FinishOrRetire, Session
    <3>2. w \in SUBSET StreamId
      BY <1>1, Fields
    <3> HIDE DEF w
    <3>3. p \in Session /\ SameView(r, p)
      <4>1. p \in Session
        BY ZenonT(30), <1>1, <3>2 DEF Session
      <4>. QED  BY Zenon, <1>1, <4>1 DEF Session, SameView, Keeps
    <3> HIDE DEF p
    <3>4. /\ Remove(r, s) \in Session /\ Good(x, r, Remove(r, s))
          /\ Remove(r, s).task = r.task /\ Remove(r, s).handle = r.handle
      <4>1. Remove(r, s) \in Session
        BY Zenon, <1>1, RemoveType
      <4>2. Good(x, r, Remove(r, s))
        BY Zenon, <1>1, <2>2, RemoveGood
      <4>3. Keeps(r, Remove(r, s))
        BY Zenon, <1>1, RemoveEffect
      <4>. QED  BY Zenon, <4>1, <4>2, <4>3 DEF Keeps
    <3>5. /\ Shutdown(r) \in Session /\ Good(x, r, Shutdown(r))
          /\ Shutdown(r).task = r.task /\ Shutdown(r).handle = r.handle
      <4>1. Shutdown(r).task = r.task /\ Shutdown(r).handle = r.handle
        BY <1>1 DEF Shutdown, Session
      <4>. QED  BY <1>1, <4>1, ShutdownGood, ShutdownType
    <3>6. Good(x, r, p) /\ p.task = r.task /\ p.handle = r.handle
      BY <1>1, <3>3, SameViewGood DEF SameView, Keeps
    <3>. QED  BY <3>1, <3>3, <3>4, <3>5, <3>6
  <2> HIDE DEF e
  <2>5. q \in Session /\ TaskChange(e, q, s) /\ q.task[s] = NoTask
    BY <1>3, <2>3, <2>4, TaskUpdate
  <2>6. TaskOK(e, q, s)
    <3>1. ~FinishDue(e, s) /\ SessionOK(e)
      BY <2>1, <2>4 DEF FinishDue, Good
    <3>. QED  BY <1>3, <2>5, <3>1 DEF TaskOK, SessionOK, PastFin
  <2> HIDE DEF q
  <2>7. Good(x, r, q)
    BY <1>1, <2>4, <2>5, <2>6, TaskGood
  <2>. QED  BY Zenon, <2>1, <2>5, <2>7 DEF Local, r
<1>6. CASE WriteData(x, s)
  <2> DEFINE f == FrameOf("Push", s)
             q == [r EXCEPT !.data = Append(@, f), !.pushed[s] = @ + 1]
  <2>1. /\ wire' = wire /\ ses' = [ses EXCEPT ![x] = q]
        /\ r.handle[s] = "open" /\ r.pushed[s] < MaxPush
    BY <1>6 DEF WriteData, Set, r
  <2>2. f \in Frame /\ Append(r.data, f) \in Seq(Frame) /\ r.pushed[s] + 1 \in 0 .. MaxPush
    <3>1. r.data \in Seq(Frame) /\ r.pushed[s] \in 0 .. MaxPush
      BY Zenon, <1>1, Fields
    <3>2. f \in Frame
      BY FrameType DEF Command
    <3>. QED  BY <2>1, <3>1, <3>2, ConstantsAssumption
  <2>3. \A d \in Seq(Frame), n \in 0 .. MaxPush : [r EXCEPT !.data = d, !.pushed[s] = n] \in Session
    BY Zenon, <1>1 DEF Session
  <2>4. q \in Session
    <3>1. q = [r EXCEPT !.data = Append(r.data, f), !.pushed[s] = r.pushed[s] + 1]
      BY <1>1 DEF Session
    <3>. QED  BY Zenon, <2>2, <2>3, <3>1
  <2>5. /\ q.data = Append(r.data, f) /\ q.handle = r.handle /\ q.task = r.task
        /\ q.writer = r.writer /\ q.ctrl = r.ctrl /\ q.rx = r.rx /\ q.pumping = r.pumping
        /\ q.closed = r.closed /\ q.drain = r.drain /\ q.active = r.active
        /\ q.flags = r.flags
    BY <1>1 DEF Session
  <2> HIDE DEF q
  <2>6. Good(x, r, q)
    BY <1>1, <2>1, <2>4, <2>5, DataGood
  <2>. QED  BY Zenon, <2>1, <2>4, <2>6 DEF Local, r
<1>. QED  BY <1>4, <1>5, <1>6

\* The end of create_stream and the close timer, on the client.
LEMMA ClientStepsLocal ==
  ASSUME TypeOK, AllOK, NEW s \in StreamId,
         OpenDone(s) \/ OpenFailed(s) \/ CloseTimeout(s)
  PROVE  Local("client")
<1> DEFINE r == ses["client"]
<1>0. "client" \in Side
  BY DEF Side
<1>1. r \in Session /\ SessionOK(r) /\ r.task[s] \in Task
  BY <1>0, Fields DEF TypeOK, AllOK
<1>2. Good("client", r, r)
  BY <1>0, <1>1, SameViewGood DEF SameView, Keeps
<1>3. /\ NoTask \in Task /\ NoTask.call = "none" /\ NoTask.pc = "none" /\ ~NoTask.flag
  BY Zenon, TaskFields
<1> HIDE DEF r
<1>4. CASE OpenDone(s)
  <2> DEFINE q1 == [r EXCEPT !.handle[s] = "open", !.task[s] = NoTask]
             e == Remove(r, s)
             q2 == [e EXCEPT !.handle[s] = "dropped", !.task[s].pc = "shutdown"]
  <2>1. /\ wire' = wire /\ r.task[s].call = "open" /\ r.task[s].pc \in {"ok", "err"}
        /\ \/ r.task[s].pc = "ok" /\ ses' = [ses EXCEPT !["client"] = q1]
           \/ /\ r.closed \/ r.task[s].pc = "err"
              /\ ses' = [ses EXCEPT !["client"] = q2]
    BY <1>4 DEF OpenDone, Set, r
  <2>2. r.handle[s] # "none"
    BY <1>1, <1>3, <2>1 DEF SessionOK
  <2>3. CASE r.task[s].pc = "ok" /\ ses' = [ses EXCEPT !["client"] = q1]
    <3>1. q1 \in Session
      BY Zenon, <1>1, <1>3 DEF Session
    <3>2. TaskChange(r, q1, s) /\ q1.task[s] = NoTask
      BY <1>1, <2>2, <3>1 DEF TaskChange, Session
    <3>3. TaskOK(r, q1, s)
      BY <1>1, <1>3, <2>1, <2>3, <3>2 DEF TaskOK, SessionOK, FinishDue, PastFin
    <3> HIDE DEF q1
    <3>4. Good("client", r, q1)
      BY <1>0, <1>1, <1>2, <3>1, <3>2, <3>3, TaskGood
    <3>. QED  BY Zenon, <2>1, <2>3, <3>1, <3>4 DEF Local, r
  <2>4. CASE /\ r.closed \/ r.task[s].pc = "err"
             /\ ses' = [ses EXCEPT !["client"] = q2]
    <3>1. ~Alive(r)
      BY <1>1, <2>1, <2>4 DEF SessionOK, Alive
    <3>2. /\ e \in Session /\ Good("client", r, e)
          /\ e.handle = r.handle /\ e.task = r.task
          /\ e.writer = r.writer /\ (r.closed => e.closed)
      <4>1. e \in Session
        BY Zenon, <1>0, <1>1, RemoveType
      <4>2. Good("client", r, e)
        BY Zenon, <1>0, <1>1, <3>1, RemoveGood
      <4>3. Keeps(r, e) /\ (r.closed => e.closed)
        BY Zenon, <1>0, <1>1, RemoveEffect
      <4>. QED  BY Zenon, <4>1, <4>2, <4>3 DEF Keeps
    <3> HIDE DEF e
    <3> DEFINE t == [e.task[s] EXCEPT !.pc = "shutdown"]
    <3>7. t \in Task /\ t.call = "open" /\ t.pc = "shutdown"
      BY <1>1, <2>1, <3>2 DEF Task
    <3>8. q2 = [e EXCEPT !.handle[s] = "dropped", !.task[s] = t]
      BY Zenon, <3>2 DEF Session
    <3> HIDE DEF t, q2
    <3>3. q2 \in Session
      BY Zenon, <3>2, <3>7, <3>8 DEF Session
    <3>4. /\ TaskChange(e, q2, s) /\ q2.task[s].call = "open" /\ q2.task[s].pc = "shutdown"
      BY SMTT(30), <2>2, <3>2, <3>3, <3>7, <3>8 DEF TaskChange, Session
    <3>5. TaskOK(e, q2, s)
      BY <3>1, <3>2, <3>4 DEF TaskOK, Alive, PastFin
    <3>6. Good("client", r, q2)
      BY <1>0, <1>1, <3>2, <3>3, <3>4, <3>5, TaskGood
    <3>. QED  BY Zenon, <2>1, <2>4, <3>3, <3>6 DEF Local, r
  <2>. QED  BY <2>1, <2>3, <2>4
<1>5. CASE OpenFailed(s)
  <2> DEFINE e == Shutdown(r)
             q == [e EXCEPT !.task[s] = NoTask]
  <2>1. wire' = wire /\ ses' = [ses EXCEPT !["client"] = q] /\ r.task[s].pc = "shutdown"
    BY <1>5 DEF OpenFailed, Set, r
  <2>2. r.handle[s] # "none"
    BY <1>1, <1>3, <2>1 DEF SessionOK
  <2>3. /\ e \in Session /\ Good("client", r, e) /\ e.closed
        /\ e.handle = r.handle
    <3>1. e.closed /\ e.handle = r.handle
      BY <1>1 DEF Shutdown, Session
    <3>. QED  BY <1>0, <1>1, <3>1, ShutdownGood, ShutdownType
  <2> HIDE DEF e
  <2>4. q \in Session /\ TaskChange(e, q, s) /\ q.task[s] = NoTask
    BY <1>3, <2>2, <2>3, TaskUpdate
  <2>5. TaskOK(e, q, s)
    BY <1>3, <2>3, <2>4 DEF TaskOK, Alive, PastFin
  <2> HIDE DEF q
  <2>6. Good("client", r, q)
    BY <1>0, <1>1, <2>3, <2>4, <2>5, TaskGood
  <2>. QED  BY Zenon, <2>1, <2>4, <2>6 DEF Local, r
<1>6. CASE CloseTimeout(s)
  <2> DEFINE q == [Shutdown(r) EXCEPT !.timer = {}]
  <2>1. wire' = wire /\ ses' = [ses EXCEPT !["client"] = q]
    BY <1>6 DEF CloseTimeout, Set, r
  <2>2. /\ q \in Session /\ Keeps(r, q) /\ q.ctrl = r.ctrl /\ q.pumping = r.pumping
        /\ q.closed /\ q.rx = r.rx /\ q.active = r.active /\ q.flags = r.flags
    BY Zenon, <1>1 DEF Shutdown, Session, Keeps
  <2> HIDE DEF q
  <2>3. Good("client", r, q)
    BY <1>0, <1>1, <2>2, ClosingGood DEF Keeps
  <2>. QED  BY Zenon, <2>1, <2>2, <2>3 DEF Local, r
<1>. QED  BY <1>4, <1>5, <1>6

\* accept_stream and handshake_failure, on the server.
LEMMA ServerStepsLocal ==
  ASSUME TypeOK, AllOK, NEW s \in StreamId, Accept(s) \/ Refuse(s)
  PROVE  Local("server")
<1> DEFINE r == ses["server"]
           f == FrameOf("Reject", s)
           c == Append(r.ctrl, f)
           e == [r EXCEPT !.ctrl = c]
           q1 == [r EXCEPT !.handle[s] = "open"]
           q2 == [e EXCEPT !.handle[s] = "open"]
<1>0. "server" \in Side
  BY DEF Side
<1>1. r \in Session /\ SessionOK(r) /\ r.task[s] \in Task
  BY <1>0, Fields DEF TypeOK, AllOK
<1>2. Good("server", r, r)
  BY <1>0, <1>1, SameViewGood DEF SameView, Keeps
<1>3. /\ wire' = wire /\ r.handle[s] # "none"
      /\ ses' = [ses EXCEPT !["server"] = q1] \/ ses' = [ses EXCEPT !["server"] = q2]
  BY ZenonT(30), <1>1 DEF Accept, Refuse, Set, Session
<1> HIDE DEF r
<1>4. f \in Frame /\ c \in Seq(Frame)
  BY <1>1, FrameType, Fields DEF Command
<1> HIDE DEF c
<1>5. /\ e \in Session /\ e.ctrl = c /\ Keeps(r, e) /\ e.rx = r.rx /\ e.pumping = r.pumping
      /\ e.closed = r.closed /\ e.drain = r.drain /\ e.active = r.active /\ e.flags = r.flags
  <2>1. e \in Session
    BY <1>1, <1>4, CtrlType
  <2>. QED  BY Zenon, <1>1, <2>1 DEF Session, Keeps
<1> HIDE DEF e
<1>6. Good("server", r, e)
  BY <1>0, <1>1, <1>3, <1>5, CtrlGood DEF c
<1>7. ASSUME NEW p \in Session, Good("server", r, p), p.handle = r.handle
      PROVE  LET q == [p EXCEPT !.handle[s] = "open"] IN q \in Session /\ Good("server", r, q)
  <2> DEFINE q == [p EXCEPT !.handle[s] = "open"]
  <2>1. q \in Session /\ TaskChange(p, q, s) /\ q.task = p.task
    BY Zenon, <1>3, <1>7, HandleUpdate
  <2> HIDE DEF q
  <2>2. TaskOK(p, q, s)
    BY <1>7, <2>1 DEF TaskOK, Good, SessionOK, FinishDue
  <2>3. Good("server", r, q)
    BY <1>0, <1>1, <1>7, <2>1, <2>2, TaskGood
  <2>. QED  BY <2>1, <2>3 DEF q
<1>8. q1 \in Session /\ Good("server", r, q1)
  BY <1>1, <1>2, <1>7
<1>9. q2 \in Session /\ Good("server", r, q2)
  BY <1>5, <1>6, <1>7 DEF Keeps
<1>. QED  BY <1>3, <1>8, <1>9 DEF Local, r
=============================================================================
