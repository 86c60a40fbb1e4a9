--------------------------- MODULE SessionStreams ---------------------------
(***************************************************************************)
(* The life of logical streams on one AnyTLS session: a client Session and *)
(* a server Session (runtime/session.rs) joined by one ordered transport,  *)
(* with the applications that hold the Stream handles on both ends.        *)
(*                                                                         *)
(* The state of a Session and of the tasks that work for it is one record, *)
(* so that a handler is the composition of the functions it calls, in the  *)
(* order it calls them.  A step is what the code does between two awaits   *)
(* that another task can get in between.  Payloads carry no content here   *)
(* (StreamData follows the bytes of one direction).                        *)
(***************************************************************************)
EXTENDS Naturals, Sequences

CONSTANTS
  MaxStream,  \* streams 1..MaxStream are opened, one after another
  MaxPush,    \* payloads written per stream and direction
  PushBytes,  \* INBOUND_PUSH_QUEUE_BYTES, in payloads
  PushMsgs,   \* capacity of a stream's push channel, in messages
  CtrlCap,    \* capacity of the control queue
  Faults,     \* may the transport fail, may a session be shut down from outside?
  Ages,       \* the sides whose session may reach its maximum age
  Calls       \* Calls[x]: how the application of side x ends a stream

Side == {"client", "server"}

ASSUME ConstantsAssumption ==
  /\ MaxStream \in Nat \ {0}
  /\ MaxPush \in Nat
  /\ PushBytes \in Nat \ {0}
  /\ PushMsgs \in Nat \ {0}
  /\ CtrlCap \in Nat \ {0}
  /\ Faults \in BOOLEAN
  /\ Ages \subseteq Side
  /\ Calls \in [Side -> SUBSET {"shutdown_write", "close", "drop"}]

VARIABLES
  ses,   \* ses[x]: the Session of side x, its tasks and its Stream handles
  wire   \* wire[x]: frames side x has written and its peer has not read

vars == <<ses, wire>>

StreamId == 1 .. MaxStream      \* allocate_stream_id never returns 0
None == 0                       \* the empty stream slot

Peer(x) == IF x = "client" THEN "server" ELSE "client"

\* The three facts a StreamState records about its stream.
Flag == {"local_fin", "remote_fin", "read_closed"}

\* "Reject" is a SynAck that carries an error; one that does not changes nothing.
Command == {"Syn", "Reject", "Push", "Fin"}

Frame == [cmd : Command, sid : StreamId]

FrameOf(c, s) == [cmd |-> c, sid |-> s]

\* A task that runs Stream::close, the drop helper, shutdown_write or the opening
\* of a stream: the call, where it stands, and what it remembers: the remote_fin
\* send_fin_by_id read before it released the lock, later whether the FIN was sent.
Task == [call : {"none", "open", "shutdown_write", "close", "drop"},
         pc : {"none", "spawned", "wait", "ok", "err", "retire", "shutdown"},
         flag : BOOLEAN]

TaskOf(c, p, b) == [call |-> c, pc |-> p, flag |-> b]
NoTask == TaskOf("none", "none", FALSE)

Session ==
  [active  : {None} \cup StreamId,        \* streams: the one active stream
   flags   : SUBSET Flag,                 \* the fields of its StreamState
   closed  : BOOLEAN,                     \* closed, and close_token cancelled
   drain   : BOOLEAN,                     \* a shutdown() has yet to empty the slot
   age     : {"young", "expired", "checked"},
   writer  : {"run", "failing", "off"},   \* background_task
   rx      : {"run", "end"},              \* receive_loop
   ctrl    : Seq(Frame),                  \* the control queue
   data    : Seq(Frame),                  \* the data queue
   idle    : BOOLEAN,                     \* offered to the client's idle pool
   pump    : [StreamId -> Seq({"Data", "Fin"})],  \* push channels
   pumping : SUBSET StreamId,             \* streams whose pump task runs
   late    : SUBSET StreamId,             \* FINs waiting for a full push channel
   handle  : [StreamId -> {"none", "opening", "incoming", "open", "closed", "dropped"}],
   task    : [StreamId -> Task],
   timer   : SUBSET StreamId,             \* close handshakes being timed
   pushed  : [StreamId -> 0 .. MaxPush]]  \* payloads written so far

NewSession ==
  [active |-> None, flags |-> {}, closed |-> FALSE, drain |-> FALSE,
   age |-> "young", writer |-> "run", rx |-> "run",
   ctrl |-> << >>, data |-> << >>, idle |-> TRUE,
   pump |-> [s \in StreamId |-> << >>], pumping |-> {}, late |-> {},
   handle |-> [s \in StreamId |-> "none"],
   task |-> [s \in StreamId |-> NoTask],
   timer |-> {}, pushed |-> [s \in StreamId |-> 0]]

-----------------------------------------------------------------------------
(* What the methods of a Session do to its state.                          *)

Expired(r) == r.age # "young"

\* The slot is emptied and the stream's token cancelled.  The timer of a stream
\* that is not active does nothing when it fires: it is forgotten.
Empty(r) == [r EXCEPT !.active = None, !.flags = {}, !.timer = {}]

\* shutdown(): closed is set and the token cancelled here, the slot is emptied by
\* the Drain step that follows.
Shutdown(r) == [r EXCEPT !.closed = TRUE, !.drain = TRUE]

\* The receive loop has ended and do_main_loop_task calls shutdown().  Nothing can
\* take the slot any more, so that no other shutdown() has anything left to drain.
EndReceive(r) == [Empty(r) EXCEPT !.rx = "end", !.closed = TRUE, !.drain = FALSE]

\* remove_stream_by_id
Remove(r, s) ==
  IF r.active # s THEN r
  ELSE IF Expired(r) THEN Shutdown(Empty(r)) ELSE [Empty(r) EXCEPT !.idle = TRUE]

\* finish_stream_if_closed.  The three flags are never withdrawn, so that the
\* check and the removal, two critical sections, act as one.
Finish(r, s) == IF r.active = s /\ r.flags = Flag THEN Remove(r, s) ELSE r

\* on_stream_read_closed
ReadClosed(r, s) ==
  IF r.active = s THEN Finish([r EXCEPT !.flags = @ \cup {"read_closed"}], s) ELSE r

\* Mutant: no timer is started for the close handshake.
FinishOrRetireUntimed(x, r, s, sent) ==
  IF x = "server" THEN Remove(r, s)
  ELSE IF ~sent \/ Expired(r) THEN Shutdown(r) ELSE r

\* finish_or_retire_stream
FinishOrRetire(x, r, s, sent) ==
  IF x = "server" THEN Remove(r, s)
  ELSE IF ~sent \/ Expired(r) THEN Shutdown(r)
  ELSE [r EXCEPT !.timer = IF r.active = s THEN {s} ELSE @]

\* queue_control, as the receive loop calls it: a full or closed queue is an error
\* that ends the loop.
QueueControl(r, f) ==
  IF r.writer # "off" /\ Len(r.ctrl) < CtrlCap
  THEN [r EXCEPT !.ctrl = Append(@, f)]
  ELSE EndReceive(r)

\* Mutant: a stream is reset without a word to the peer.
QueueAndRemoveSilently(r, f, s) == Remove(r, s)

\* queue_control(frame)?; remove_stream_by_id(s)
QueueAndRemove(r, f, s) ==
  LET q == QueueControl(r, f) IN IF q.rx = "end" THEN q ELSE Remove(q, s)

\* StreamState::new: the slot is taken and a pump task runs.
Insert(r, s, h) ==
  [r EXCEPT !.active = s, !.flags = {}, !.pumping = @ \cup {s}, !.handle[s] = h]

\* The local FIN is recorded and its frame put in the data queue; the call waits for
\* the writer's answer (enqueue_encoded_with_mode), or for the session to be closed.
EnqueueFin(r, s, call, seen) ==
  [r EXCEPT !.flags = @ \cup {"local_fin"}, !.task[s] = TaskOf(call, "wait", seen),
            !.data = IF r.writer = "off" THEN @ ELSE Append(@, FrameOf("Fin", s))]

\* The pump task of s ends: its receiver goes, and whatever was queued.
StopPump(r, s) == [r EXCEPT !.pumping = @ \ {s}, !.pump[s] = << >>]

-----------------------------------------------------------------------------
(* The receive loop's handlers.                                            *)

\* The byte limit is checked first; the channel may then be full or, when the pump
\* task has ended, closed.  Either limit resets the stream.
OnPush(r, s) ==
  LET held == Len(SelectSeq(r.pump[s], LAMBDA m : m = "Data"))
  IN  IF r.active # s THEN r
      ELSE IF held >= PushBytes THEN QueueAndRemove(r, FrameOf("Fin", s), s)
      ELSE IF s \in r.pumping /\ Len(r.pump[s]) < PushMsgs
           THEN [r EXCEPT !.pump[s] = Append(@, "Data")]
      ELSE IF r.closed THEN r
      ELSE QueueAndRemove(r, FrameOf("Fin", s), s)

\* on_receive_fin_cmd
OnFin(r, s) ==
  IF r.active # s \/ "remote_fin" \in r.flags THEN r
  ELSE LET e == [r EXCEPT !.flags = @ \cup {"remote_fin"}]
       IN  IF s \notin r.pumping THEN ReadClosed(e, s)
           ELSE IF Len(r.pump[s]) < PushMsgs THEN [e EXCEPT !.pump[s] = Append(@, "Fin")]
           ELSE [e EXCEPT !.late = @ \cup {s}]

\* Mutant: a SYN the session has no room for is ignored.
OnSynIgnored(r, s) ==
  IF Expired(r) \/ r.active # None \/ \E t \in StreamId : r.handle[t] = "incoming" THEN r
  ELSE Insert(r, s, "incoming")

\* on_receive_syn_cmd.  It does not look at closed.  The channel to accept_stream
\* holds one stream; its receiver lives as long as the session.
OnSyn(r, s) ==
  IF r.active = s THEN r
  ELSE IF Expired(r) \/ r.active # None THEN QueueControl(r, FrameOf("Reject", s))
  ELSE IF \E t \in StreamId : r.handle[t] = "incoming"
       THEN QueueAndRemove(Insert(r, s, "dropped"), FrameOf("Reject", s), s)
  ELSE Insert(r, s, "incoming")

\* A SynAck with data.  The client shuts its session down, which empties the slot
\* before remove_stream_by_id looks at it.
OnReject(x, r, s) == IF x = "client" THEN Shutdown(r) ELSE Remove(r, s)

\* A client ignores SYNs.
OnFrame(x, r, f) ==
  CASE f.cmd = "Syn"    -> IF x = "client" THEN r ELSE OnSyn(r, f.sid)
    [] f.cmd = "Push"   -> OnPush(r, f.sid)
    [] f.cmd = "Fin"    -> OnFin(r, f.sid)
    [] f.cmd = "Reject" -> OnReject(x, r, f.sid)

-----------------------------------------------------------------------------
Set(x, r) == ses' = [ses EXCEPT ![x] = r]

\* Side x goes to state r having read the frames before rest; what is left of them
\* when its receive loop ends is never read.
SetReading(x, r, rest) ==
  /\ Set(x, r)
  /\ wire' = [wire EXCEPT ![Peer(x)] = IF r.rx = "end" THEN << >> ELSE rest]

Init == /\ ses = [x \in Side |-> NewSession]
        /\ wire = [x \in Side |-> << >>]

\* One iteration of receive_loop.  Its select is not biased: frames may still be
\* handled after the session was closed.
Receive(x) ==
  /\ ses[x].rx = "run"
  /\ wire[Peer(x)] # << >>
  /\ SetReading(x, OnFrame(x, ses[x], Head(wire[Peer(x)])), Tail(wire[Peer(x)]))

TransportGone(x) == ses[x].writer = "off" /\ ses[x].rx = "end"

\* Mutant: the end of the transport is not noticed.
ReceiveEndDeaf(x) ==
  /\ ses[x].rx = "run" /\ ses[x].closed
  /\ SetReading(x, EndReceive(ses[x]), << >>)

\* receive_loop ends: its session was closed, the peer dropped the transport (what
\* was in flight may be lost), or the transport failed.
ReceiveEnd(x) ==
  /\ ses[x].rx = "run"
  /\ ses[x].closed \/ TransportGone(Peer(x)) \/ Faults
  /\ SetReading(x, EndReceive(ses[x]), << >>)

\* The second half of a shutdown() call.
Drain(x) ==
  /\ ses[x].drain
  /\ Set(x, [Empty(ses[x]) EXCEPT !.drain = FALSE])
  /\ UNCHANGED wire

\* Client::shutdown, the pool, the heartbeat or the server binary calls shutdown().
ShutdownCalled(x) ==
  /\ Faults
  /\ ~ses[x].closed
  /\ Set(x, Shutdown(ses[x]))
  /\ UNCHANGED wire

-----------------------------------------------------------------------------
(* background_task, the only task that writes to the transport.            *)

\* The oneshot result of request f reaches the task that waits for it.
Complete(r, f, result) ==
  IF \/ f.cmd = "Syn" /\ r.task[f.sid].call = "open"
     \/ f.cmd = "Fin" /\ r.task[f.sid].call \in {"shutdown_write", "close", "drop"}
  THEN IF r.task[f.sid].pc = "wait" THEN [r EXCEPT !.task[f.sid].pc = result] ELSE r
  ELSE r

\* The control queue goes first.  Resets have no result sender.
TakeRequest(r, result) ==
  IF r.ctrl # << >>
  THEN LET e == [r EXCEPT !.ctrl = Tail(@)]
       IN  IF Head(r.ctrl).cmd = "Syn" THEN Complete(e, Head(r.ctrl), result) ELSE e
  ELSE Complete([r EXCEPT !.data = Tail(@)], Head(r.data), result)

NextRequest(r) == IF r.ctrl # << >> THEN Head(r.ctrl) ELSE Head(r.data)

CanWrite(r) == r.writer = "run" /\ ~r.closed /\ (r.ctrl # << >> \/ r.data # << >>)

Write(x) ==
  /\ CanWrite(ses[x])
  /\ Set(x, TakeRequest(ses[x], "ok"))
  /\ wire' = IF ses[Peer(x)].rx = "end" THEN wire
             ELSE [wire EXCEPT ![x] = Append(@, NextRequest(ses[x]))]

\* A write that fails or times out: the requester hears of it before closed is set.
WriteFail(x) ==
  /\ Faults \/ TransportGone(Peer(x))
  /\ CanWrite(ses[x])
  /\ Set(x, [TakeRequest(ses[x], "err") EXCEPT !.writer = "failing"])
  /\ UNCHANGED wire

\* Mutant: the writer does not watch close_token.
WriterEndDeaf(x) ==
  /\ ses[x].writer = "failing"
  /\ Set(x, [ses[x] EXCEPT !.writer = "off", !.closed = TRUE,
                            !.ctrl = << >>, !.data = << >>])
  /\ UNCHANGED wire

\* The writer task ends, after a failure or because the session was closed.  Its
\* queues go with it.
WriterEnd(x) ==
  /\ \/ ses[x].writer = "failing"
     \/ ses[x].writer = "run" /\ ses[x].closed
  /\ Set(x, [ses[x] EXCEPT !.writer = "off", !.closed = TRUE,
                            !.ctrl = << >>, !.data = << >>])
  /\ UNCHANGED wire

\* A call that waits for its request to be written learns that the session was closed.
WaitCancelled(x, s) ==
  LET r == ses[x]
  IN  /\ r.task[s].pc = "wait" /\ r.closed
      /\ Set(x, [r EXCEPT !.task[s].pc = "err"])
      /\ UNCHANGED wire

-----------------------------------------------------------------------------
(* The pump task of a stream, and the task that queues a FIN late.         *)

\* A payload reaches the application's pipe.  Once the stream is removed a blocked
\* write is given up after STREAM_CLOSE_TIMEOUT; a pipe whose reader was dropped
\* fails.  (A closed handle may or may not have been dropped as well.)
PumpData(x, s) ==
  LET r == ses[x]
  IN  /\ s \in r.pumping /\ r.pump[s] # << >> /\ Head(r.pump[s]) = "Data"
      /\ \/ r.handle[s] # "dropped" /\ Set(x, [r EXCEPT !.pump[s] = Tail(@)])
         \/ r.handle[s] \in {"closed", "dropped"} /\ Set(x, ReadClosed(StopPump(r, s), s))
         \/ r.active # s /\ Set(x, StopPump(r, s))
      /\ UNCHANGED wire

\* EOF reaches the application.
PumpFin(x, s) ==
  LET r == ses[x]
  IN  /\ s \in r.pumping /\ r.pump[s] # << >> /\ Head(r.pump[s]) = "Fin"
      /\ Set(x, ReadClosed(StopPump(r, s), s))
      /\ UNCHANGED wire

\* The stream was removed and everything queued has been pumped.
PumpEnd(x, s) ==
  LET r == ses[x]
  IN  /\ s \in r.pumping /\ r.pump[s] = << >> /\ r.active # s
      /\ Set(x, StopPump(r, s))
      /\ UNCHANGED wire

LateFin(x, s) ==
  LET r == ses[x]
      e == [r EXCEPT !.late = @ \ {s}]
  IN  /\ s \in r.late
      /\ \/ r.active # s /\ Set(x, e)
         \/ s \in r.pumping /\ Len(r.pump[s]) < PushMsgs
            /\ Set(x, [e EXCEPT !.pump[s] = Append(@, "Fin")])
         \/ s \notin r.pumping /\ Set(x, ReadClosed(e, s))
      /\ UNCHANGED wire

-----------------------------------------------------------------------------
(* Opening, using and giving up a stream.                                  *)

\* Mutant: closed is not looked at again once the slot is locked.
OpenUnchecked(s) ==
  LET r == ses["client"]
  IN  /\ r.idle /\ ~Expired(r) /\ r.active = None
      /\ r.handle[s] = "none" /\ \A t \in 1 .. s - 1 : r.handle[t] # "none"
      /\ r.writer # "off" /\ Len(r.ctrl) < CtrlCap
      /\ Set("client", [Insert(r, s, "opening") EXCEPT
                          !.idle = FALSE, !.ctrl = Append(@, FrameOf("Syn", s)),
                          !.task[s] = TaskOf("open", "wait", FALSE)])
      /\ UNCHANGED wire

\* Client::create_stream on this session: taken from the pool (or just dialled),
\* the slot reserved, the SYN queued.
Open(s) ==
  LET r == ses["client"]
  IN  /\ r.idle /\ ~r.closed /\ ~Expired(r) /\ r.active = None
      /\ r.handle[s] = "none" /\ \A t \in 1 .. s - 1 : r.handle[t] # "none"
      /\ r.writer # "off" /\ Len(r.ctrl) < CtrlCap
      /\ Set("client", [Insert(r, s, "opening") EXCEPT
                          !.idle = FALSE, !.ctrl = Append(@, FrameOf("Syn", s)),
                          !.task[s] = TaskOf("open", "wait", FALSE)])
      /\ UNCHANGED wire

\* open_reserved_stream returns.
OpenDone(s) ==
  LET r == ses["client"]
  IN  /\ r.task[s].call = "open" /\ r.task[s].pc \in {"ok", "err"}
      /\ IF r.task[s].pc = "ok" /\ ~r.closed
         THEN Set("client", [r EXCEPT !.handle[s] = "open", !.task[s] = NoTask])
         ELSE Set("client", [Remove(r, s) EXCEPT !.handle[s] = "dropped", !.task[s].pc = "shutdown"])
      /\ UNCHANGED wire

\* create_stream shuts down a session on which opening failed.
OpenFailed(s) ==
  LET r == ses["client"]
  IN  /\ r.task[s].pc = "shutdown"
      /\ Set("client", [Shutdown(r) EXCEPT !.task[s] = NoTask])
      /\ UNCHANGED wire

\* accept_stream, and the handshake_success that follows it
Accept(s) ==
  LET r == ses["server"]
  IN  /\ r.handle[s] = "incoming"
      /\ Set("server", [r EXCEPT !.handle[s] = "open"])
      /\ UNCHANGED wire

\* handshake_failure: the server could not reach the target.
Refuse(s) ==
  LET r == ses["server"]
  IN  /\ r.handle[s] = "incoming" /\ r.writer # "off" /\ Len(r.ctrl) < CtrlCap
      /\ Set("server", [r EXCEPT !.handle[s] = "open", !.ctrl = Append(@, FrameOf("Reject", s))])
      /\ UNCHANGED wire

\* Stream::write
WriteData(x, s) ==
  LET r == ses[x]
  IN  /\ r.handle[s] = "open" /\ r.pushed[s] < MaxPush
      /\ r.active = s /\ "local_fin" \notin r.flags /\ r.writer # "off"
      /\ Set(x, [r EXCEPT !.data = Append(@, FrameOf("Push", s)), !.pushed[s] = @ + 1])
      /\ UNCHANGED wire

\* Mutant: a FIN of the peer that has come already is forgotten.
ShutdownWriteUnseen(x, s) ==
  LET r == ses[x]
  IN  /\ "shutdown_write" \in Calls[x]
      /\ r.handle[s] = "open" /\ r.task[s] = NoTask
      /\ r.active = s /\ "local_fin" \notin r.flags
      /\ Set(x, EnqueueFin(r, s, "shutdown_write", FALSE))
      /\ UNCHANGED wire

\* Stream::shutdown_write_by_send_fin_to_remote, up to the queueing of the FIN.
ShutdownWrite(x, s) ==
  LET r == ses[x]
  IN  /\ "shutdown_write" \in Calls[x]
      /\ r.handle[s] = "open" /\ r.task[s] = NoTask
      /\ r.active = s /\ "local_fin" \notin r.flags
      /\ Set(x, EnqueueFin(r, s, "shutdown_write", "remote_fin" \in r.flags))
      /\ UNCHANGED wire

\* Stream::close, up to the queueing of the FIN.
Close(x, s) ==
  LET r == ses[x]
      q == IF r.closed THEN r
           ELSE IF r.active # s THEN [r EXCEPT !.task[s] = TaskOf("close", "err", FALSE)]
           ELSE IF "local_fin" \in r.flags THEN [r EXCEPT !.task[s] = TaskOf("close", "ok", FALSE)]
           ELSE EnqueueFin(r, s, "close", "remote_fin" \in r.flags)
  IN  /\ "close" \in Calls[x]
      /\ r.handle[s] = "open" /\ r.task[s] = NoTask
      /\ Set(x, [q EXCEPT !.handle[s] = "closed"])
      /\ UNCHANGED wire

\* Drop for Stream: the handle goes, with any future that borrows it, and the
\* cleanup is spawned.
Drop(x, s) ==
  LET r == ses[x]
  IN  /\ "drop" \in Calls[x]
      /\ r.handle[s] \in {"opening", "open"}
      /\ Set(x, [r EXCEPT !.handle[s] = "dropped", !.task[s] = TaskOf("drop", "spawned", FALSE)])
      /\ UNCHANGED wire

\* helper_drop_stream_by_id, up to the queueing of the FIN.
DropHelper(x, s) ==
  LET r == ses[x]
  IN  /\ r.task[s].pc = "spawned"
      /\ Set(x, IF r.active = s /\ "local_fin" \notin r.flags
                THEN EnqueueFin(r, s, "drop", TRUE)
                ELSE [r EXCEPT !.task[s] = TaskOf("drop", "ok", TRUE)])
      /\ UNCHANGED wire

\* The FIN was written or not: send_fin_by_id finishes the stream if the peer's FIN
\* had come before; the drop helper always tries to.
FinDone(x, s) ==
  LET r == ses[x]
      t == r.task[s]
      e == IF t.flag /\ (t.pc = "ok" \/ t.call = "drop") THEN Finish(r, s) ELSE r
  IN  /\ t.call \in {"shutdown_write", "close", "drop"} /\ t.pc \in {"ok", "err"}
      /\ Set(x, [e EXCEPT !.task[s] = IF t.call = "shutdown_write" THEN NoTask
                                      ELSE TaskOf(t.call, "retire", t.pc = "ok")])
      /\ UNCHANGED wire

\* The end of close and of the drop helper: finish_or_retire_stream.
Retire(x, s) ==
  LET r == ses[x]
  IN  /\ r.task[s].pc = "retire"
      /\ Set(x, [FinishOrRetire(x, r, s, r.task[s].flag) EXCEPT !.task[s] = NoTask])
      /\ UNCHANGED wire

\* STREAM_CLOSE_TIMEOUT after the client closed or dropped a stream.
CloseTimeout(s) ==
  LET r == ses["client"]
  IN  /\ s \in r.timer
      /\ Set("client", [Shutdown(r) EXCEPT !.timer = {}])
      /\ UNCHANGED wire

\* max_age has passed.
Expire(x) ==
  /\ x \in Ages /\ ses[x].age = "young" /\ ~ses[x].closed
  /\ Set(x, [ses[x] EXCEPT !.age = "expired"])
  /\ UNCHANGED wire

\* do_wait_expiration wakes up, once.
ExpireCheck(x) ==
  LET r == [ses[x] EXCEPT !.age = "checked"]
  IN  /\ ses[x].age = "expired"
      /\ Set(x, IF r.active = None THEN Shutdown(r) ELSE r)
      /\ UNCHANGED wire

-----------------------------------------------------------------------------
SessionStep(x) ==
  \/ Receive(x) \/ ReceiveEnd(x) \/ Drain(x) \/ ShutdownCalled(x)
  \/ Write(x) \/ WriteFail(x) \/ WriterEnd(x)
  \/ Expire(x) \/ ExpireCheck(x)

StreamStep(x, s) ==
  \/ WaitCancelled(x, s)
  \/ PumpData(x, s) \/ PumpFin(x, s) \/ PumpEnd(x, s) \/ LateFin(x, s)
  \/ WriteData(x, s) \/ ShutdownWrite(x, s) \/ Close(x, s)
  \/ Drop(x, s) \/ DropHelper(x, s) \/ FinDone(x, s) \/ Retire(x, s)

ClientStep(s) == Open(s) \/ OpenDone(s) \/ OpenFailed(s) \/ CloseTimeout(s)
ServerStep(s) == Accept(s) \/ Refuse(s)

Next ==
  \/ \E x \in Side : SessionStep(x)
  \/ \E x \in Side, s \in StreamId : StreamStep(x, s)
  \/ \E s \in StreamId : ClientStep(s) \/ ServerStep(s)

Spec == Init /\ [][Next]_vars

\* Tasks that can run do run: the receive loop reads what is there and ends when its
\* session is closed or the transport gone; a write is completed or times out; timers
\* fire.  Nothing is assumed of the applications, nor that they read.
ReceiveEndDue(x) == ReceiveEnd(x) /\ (ses[x].closed \/ TransportGone(Peer(x)))

Fairness ==
  /\ \A x \in Side :
       /\ WF_vars(Receive(x)) /\ WF_vars(ReceiveEndDue(x)) /\ WF_vars(Drain(x))
       /\ WF_vars(Write(x) \/ WriteFail(x)) /\ WF_vars(WriterEnd(x))
       /\ \A s \in StreamId :
            /\ WF_vars(WaitCancelled(x, s)) /\ WF_vars(DropHelper(x, s))
            /\ WF_vars(FinDone(x, s)) /\ WF_vars(Retire(x, s))
  /\ \A s \in StreamId :
       WF_vars(OpenDone(s)) /\ WF_vars(OpenFailed(s)) /\ WF_vars(CloseTimeout(s))

FairSpec == Spec /\ Fairness

-----------------------------------------------------------------------------
(* Properties.                                                             *)

\* The fields of both sessions, their queues and the transport hold what the
\* declarations of Session, StreamState and Frame allow.
TypeOK == /\ ses \in [Side -> Session]
          /\ wire \in [Side -> Seq(Frame)]

\* The session works as far as its own tasks can tell.
Healthy(x) == ~ses[x].closed /\ ses[x].writer = "run"

Elements(q) == {q[i] : i \in DOMAIN q}

\* What side x has queued or written and its peer has not read.
InFlight(x) == Elements(ses[x].ctrl) \cup Elements(ses[x].data) \cup Elements(wire[x])

\* While both sessions work, a side that still holds stream s and has not seen its
\* peer's FIN can rely on it: when the peer no longer holds s (closed, dropped,
\* finished, reset or refused it), a FIN or a rejection for s is on its way.  So no
\* removal of a stream (remove_stream_by_id) leaves the other end waiting for ever.
FinNeverLost ==
  \A x \in Side, s \in StreamId :
    /\ Healthy(x) /\ Healthy(Peer(x))
    /\ ses[x].active = s /\ "remote_fin" \notin ses[x].flags
    /\ ses[Peer(x)].active # s
    /\ FrameOf("Syn", s) \notin InFlight(x)
    => \E c \in {"Fin", "Reject"} : FrameOf(c, s) \in InFlight(Peer(x))

\* A stream with both FINs exchanged and its input drained is about to be removed:
\* send_fin_by_id looks at remote_fin before it queues its own FIN and may look too
\* early, on_receive_fin_cmd and the pump may look too late; one of them always
\* looks in time (finish_stream_if_closed).
NoFinishMissed ==
  \A x \in Side, s \in StreamId :
    Healthy(x) /\ ses[x].active = s /\ ses[x].flags = Flag
    => \/ ses[x].task[s].pc = "spawned"
       \/ ses[x].task[s].pc \in {"wait", "ok"} /\ ses[x].task[s].flag

\* Once a receive loop has ended and its task has shut the session down, the stream
\* slot is empty for good, although on_receive_syn_cmd fills it without looking at
\* closed and open may run concurrently (the re-check in reserve_stream).
NoStreamAfterEnd ==
  \A x \in Side : ses[x].rx = "end" => ses[x].active = None /\ ses[x].closed

\* A stream whose handle was closed or dropped gives up the slot: the FIN exchange
\* completes, or the session is shut down (finish_or_retire_stream and its timer).  A
\* handle stays closed and an id is not used again, so to hold again and again is to come
\* true and stay so; likewise below.
ReleasedStreamLeavesSlot ==
  []<>(\A x \in Side, s \in StreamId :
         ses[x].handle[s] \in {"closed", "dropped"} => ses[x].active # s)

\* A closed session stops: both of its tasks end, so that the transport is released,
\* no stream is left in its slot and nobody waits for a write any more.
ClosedSessionStops ==
  []<>(\A x \in Side :
         ses[x].closed => TransportGone(x) /\ \A s \in StreamId : ses[x].task[s].pc # "wait")

\* One side ending its session ends the other's.
PeerFollows == []<>(\A x \in Side : ses[x].closed => ses[Peer(x)].closed)

\* "does_not_reuse_session_until_peer_stream_finishes" (client.rs): a SYN that
\* reaches a session that has not expired finds its slot empty.
SynFindsSlotEmpty ==
  [][\A s \in StreamId :
       /\ wire["client"] # << >> /\ wire'["client"] = Tail(wire["client"])
       /\ Head(wire["client"]) = FrameOf("Syn", s)
       /\ ~Expired(ses["server"])
       => ses["server"].active = None]_vars

\* The end of stream s on the client (finish_or_retire_stream) never shuts the
\* session down under another stream that uses it.
CleanupSparesOthers ==
  [][\A s \in StreamId :
       Retire("client", s) /\ ses["client"].active \notin {None, s}
       => ses'["client"].closed = ses["client"].closed]_vars
=============================================================================
