----------------------------- MODULE StreamData -----------------------------
(***************************************************************************)
(* The bytes of one direction of one stream, from Stream::write on one     *)
(* side to Stream::read on the other: the sender's queues and the          *)
(* transport, the receiver's push channel with its two limits, the pump    *)
(* task and the pipe (tokio::io::duplex) the application reads from.       *)
(*                                                                         *)
(* SessionStreams models how streams come and go; here a removal of the    *)
(* stream at either end is one step that may happen at any time.  Bytes    *)
(* are named by their offsets (ByteStream), so that what is read can be    *)
(* compared with what was written.  A FIN has a place among the bytes too. *)
(***************************************************************************)
EXTENDS Naturals, Sequences

CONSTANTS
  MaxBytes,    \* bytes the application writes in all
  MaxFrame,    \* bytes of a Push frame
  PushBytes,   \* INBOUND_PUSH_QUEUE_BYTES
  PushMsgs,    \* capacity of the push channel: INBOUND_PUSH_QUEUE_MESSAGES + 1
  PipeBytes,   \* capacity of the duplex pipe
  Breaks,      \* may the stream be removed before both FINs, or its reader dropped?
  Overlap      \* may a write run while another task shuts the write half down?

ASSUME DataAssumption ==
  /\ MaxBytes \in Nat /\ MaxFrame \in Nat \ {0}
  /\ PushBytes \in Nat /\ PushMsgs \in Nat \ {0} /\ PipeBytes \in Nat \ {0}
  /\ Breaks \in BOOLEAN /\ Overlap \in BOOLEAN

VARIABLES
  snd,     \* the sender's end
  wire,    \* frames written to the transport and not yet read from it
  rcv,     \* the receiver's StreamState and its pump task
  app,     \* the receiver's pipe and what its application has read
  broken   \* the stream was removed at one end before it was finished

vars == <<snd, wire, rcv, app, broken>>

Offset == 0 .. MaxBytes
Chunk == [lo : Offset, hi : Offset]
ChunkOf(l, h) == [lo |-> l, hi |-> h]

\* A Push frame, or the PushMessage made of it, carries the bytes lo+1..hi; a FIN
\* stands between two bytes, lo = hi.
Msg == [kind : {"data", "fin"}, lo : Offset, hi : Offset]
Data(l, h) == [kind |-> "data", lo |-> l, hi |-> h]
FinAt(o) == [kind |-> "fin", lo |-> o, hi |-> o]
Size(m) == m.hi - m.lo

\* Where the pieces of q, which start at offset e, end.
End(q, e) == IF q = << >> THEN e ELSE q[Len(q)].hi

Sender ==
  [slot : BOOLEAN,      \* the stream is the session's active one
   fin  : BOOLEAN,      \* local_fin
   call : {"none", "checked", "wait"},   \* where Stream::write stands
   next : Offset,       \* bytes queued so far
   upto : Offset,       \* bytes queued before the FIN
   data : Seq(Msg),     \* the data queue
   rst  : BOOLEAN,      \* a FIN of this stream is in the control queue
   out  : Offset]       \* bytes written to the transport so far

Receiver ==
  [slot : BOOLEAN,
   fin  : BOOLEAN,      \* remote_fin
   chan : Seq(Msg),     \* the push channel
   used : Nat,          \* push_slots taken
   late : BOOLEAN,      \* a FIN waits for room in the channel
   pump : {"run", "fin", "off"},   \* the pump task: running, done at a FIN, stopped
   cur  : Seq(Msg),     \* what is left of the message it is writing (at most one)
   cost : Nat,          \* push_slots that message holds
   in   : Offset]       \* bytes put in the channel so far

Reader ==
  [pipe  : Seq(Chunk),  \* what the pipe holds
   level : Nat,         \* how many bytes that is
   got   : Seq(Chunk),  \* what the application has read
   eof   : BOOLEAN,     \* it has read end of file
   gone  : BOOLEAN]     \* it has dropped its handle

Init ==
  /\ snd = [slot |-> TRUE, fin |-> FALSE, call |-> "none", next |-> 0, upto |-> 0,
            data |-> << >>, rst |-> FALSE, out |-> 0]
  /\ wire = << >>
  /\ rcv = [slot |-> TRUE, fin |-> FALSE, chan |-> << >>, used |-> 0, late |-> FALSE,
            pump |-> "run", cur |-> << >>, cost |-> 0, in |-> 0]
  /\ app = [pipe |-> << >>, level |-> 0, got |-> << >>, eof |-> FALSE, gone |-> FALSE]
  /\ broken = FALSE

-----------------------------------------------------------------------------
(* The sender.                                                             *)

\* write_data: the stream is looked up under the lock, which is then released.
WriteCheck ==
  /\ snd.call = "none" /\ snd.slot /\ ~snd.fin /\ snd.next < MaxBytes
  /\ snd' = [snd EXCEPT !.call = "checked"]
  /\ UNCHANGED <<wire, rcv, app, broken>>

\* The frame goes to the data queue and the call waits for it to be written.
WriteQueue ==
  /\ snd.call = "checked"
  /\ \E h \in snd.next + 1 .. snd.next + MaxFrame :
       /\ h <= MaxBytes
       /\ snd' = [snd EXCEPT !.call = "wait", !.next = h,
                             !.data = Append(@, Data(snd.next, h))]
  /\ UNCHANGED <<wire, rcv, app, broken>>

\* The future of the call is dropped; what it has queued stays queued.
WriteCancel ==
  /\ snd.call # "none"
  /\ snd' = [snd EXCEPT !.call = "none"]
  /\ UNCHANGED <<wire, rcv, app, broken>>

\* send_fin_by_id and the drop helper: local_fin is set and a FIN queued.
SendFin ==
  /\ snd.slot /\ ~snd.fin
  /\ Overlap \/ snd.call = "none"
  /\ snd' = [snd EXCEPT !.fin = TRUE, !.upto = snd.next, !.data = Append(@, FinAt(snd.next))]
  /\ UNCHANGED <<wire, rcv, app, broken>>

\* The sender's receive loop resets the stream (the other direction went over a
\* limit): a FIN in the control queue, and the stream is removed.
SenderReset ==
  /\ Breaks /\ snd.slot
  /\ snd' = [snd EXCEPT !.slot = FALSE, !.rst = TRUE]
  /\ broken' = TRUE
  /\ UNCHANGED <<wire, rcv, app>>

\* background_task: the control queue goes first, whatever the data queue holds.
WriteControl ==
  /\ snd.rst
  /\ snd' = [snd EXCEPT !.rst = FALSE]
  /\ wire' = Append(wire, FinAt(snd.out))
  /\ UNCHANGED <<rcv, app, broken>>

\* The call that waits for this very frame returns.
WriteFrame ==
  /\ ~snd.rst /\ snd.data # << >>
  /\ LET m == Head(snd.data)
         done == snd.call = "wait" /\ m.kind = "data" /\ m.hi = snd.next
     IN  /\ snd' = [snd EXCEPT !.data = Tail(@), !.out = m.hi,
                               !.call = IF done THEN "none" ELSE @]
         /\ wire' = Append(wire, m)
  /\ UNCHANGED <<rcv, app, broken>>

-----------------------------------------------------------------------------
(* The receiver.                                                           *)

\* Mutant: only the number of messages is limited.
ReceivePushUnmetered ==
  /\ wire # << >> /\ Head(wire).kind = "data"
  /\ wire' = Tail(wire)
  /\ LET m == Head(wire)
         fits == rcv.pump = "run" /\ Len(rcv.chan) < PushMsgs
     IN  IF rcv.slot /\ ~fits
         THEN rcv' = [rcv EXCEPT !.slot = FALSE] /\ broken' = TRUE
         ELSE /\ rcv' = IF rcv.slot
                        THEN [rcv EXCEPT !.chan = Append(@, m), !.used = @ + Size(m), !.in = m.hi]
                        ELSE rcv
              /\ UNCHANGED broken
  /\ UNCHANGED <<snd, app>>

\* A Push: without an active stream it is ignored; one that finds no push_slots, a full
\* channel or no pump task resets the stream.
ReceivePush ==
  /\ wire # << >> /\ Head(wire).kind = "data"
  /\ wire' = Tail(wire)
  /\ LET m == Head(wire)
         fits == rcv.used + Size(m) <= PushBytes /\ rcv.pump = "run" /\ Len(rcv.chan) < PushMsgs
     IN  IF rcv.slot /\ ~fits
         THEN rcv' = [rcv EXCEPT !.slot = FALSE] /\ broken' = TRUE
         ELSE /\ rcv' = IF rcv.slot
                        THEN [rcv EXCEPT !.chan = Append(@, m), !.used = @ + Size(m), !.in = m.hi]
                        ELSE rcv
              /\ UNCHANGED broken
  /\ UNCHANGED <<snd, app>>

\* Mutant: a FIN that finds the channel full is noted and not queued.
ReceiveFinUnqueued ==
  /\ wire # << >> /\ Head(wire).kind = "fin"
  /\ wire' = Tail(wire)
  /\ rcv' = IF ~rcv.slot \/ rcv.fin THEN rcv
            ELSE IF rcv.pump = "run" /\ Len(rcv.chan) < PushMsgs
                 THEN [rcv EXCEPT !.fin = TRUE, !.chan = Append(@, Head(wire))]
            ELSE [rcv EXCEPT !.fin = TRUE]
  /\ UNCHANGED <<snd, app, broken>>

\* Mutant: a FIN shuts the pipe down at once, ahead of what the channel holds.
ReceiveFinAtOnce ==
  /\ wire # << >> /\ Head(wire).kind = "fin"
  /\ wire' = Tail(wire)
  /\ rcv' = IF ~rcv.slot \/ rcv.fin THEN rcv
            ELSE IF rcv.pump # "run" THEN [rcv EXCEPT !.fin = TRUE]
            ELSE [rcv EXCEPT !.fin = TRUE, !.pump = "fin", !.chan = << >>, !.cur = << >>,
                             !.used = 0, !.cost = 0]
  /\ UNCHANGED <<snd, app, broken>>

\* on_receive_fin_cmd: the FIN is queued behind the data; a task is spawned to do so
\* when the channel is full.  Without a pump task there is nobody to tell.
ReceiveFin ==
  /\ wire # << >> /\ Head(wire).kind = "fin"
  /\ wire' = Tail(wire)
  /\ rcv' = IF ~rcv.slot \/ rcv.fin THEN rcv
            ELSE IF rcv.pump # "run" THEN [rcv EXCEPT !.fin = TRUE]
            ELSE IF Len(rcv.chan) < PushMsgs
                 THEN [rcv EXCEPT !.fin = TRUE, !.chan = Append(@, Head(wire))]
            ELSE [rcv EXCEPT !.fin = TRUE, !.late = TRUE]
  /\ UNCHANGED <<snd, app, broken>>

\* The spawned task gets room in the channel, or finds the stream or the pump gone.
LateFin ==
  /\ rcv.late
  /\ \/ ~rcv.slot /\ rcv' = [rcv EXCEPT !.late = FALSE]
     \/ rcv.pump # "run" /\ rcv' = [rcv EXCEPT !.late = FALSE]
     \/ /\ rcv.pump = "run" /\ Len(rcv.chan) < PushMsgs
        /\ rcv' = [rcv EXCEPT !.late = FALSE, !.chan = Append(@, FinAt(rcv.in))]
  /\ UNCHANGED <<snd, wire, app, broken>>

\* The receiver's stream is removed before it was finished: its session is shut down,
\* its opening is rejected, or a server closes its handle.
Remove ==
  /\ Breaks /\ rcv.slot
  /\ rcv' = [rcv EXCEPT !.slot = FALSE]
  /\ broken' = TRUE
  /\ UNCHANGED <<snd, wire, app>>

-----------------------------------------------------------------------------
(* The pump task, which goes on after the stream is removed, and the pipe. *)

\* The pump task ends: the channel goes, and its end of the pipe.
Stopped(how) == [rcv EXCEPT !.pump = how, !.chan = << >>, !.cur = << >>, !.used = 0, !.cost = 0]

PumpTake ==
  /\ rcv.pump = "run" /\ rcv.cur = << >> /\ rcv.chan # << >>
  /\ rcv' = IF Head(rcv.chan).kind = "fin" THEN Stopped("fin")
            ELSE [rcv EXCEPT !.chan = Tail(@), !.cur = <<Head(rcv.chan)>>,
                             !.cost = Size(Head(rcv.chan))]
  /\ UNCHANGED <<snd, wire, app, broken>>

\* Mutant: the permit is given back with every part of the message that is written.
PumpWriteRefund ==
  /\ rcv.pump = "run" /\ rcv.cur # << >> /\ ~app.gone /\ app.level < PipeBytes
  /\ LET m == Head(rcv.cur)
         room == m.lo + (PipeBytes - app.level)
         h == IF m.hi <= room THEN m.hi ELSE room
     IN  /\ app' = [app EXCEPT !.pipe = Append(@, ChunkOf(m.lo, h)), !.level = @ + (h - m.lo)]
         /\ rcv' = [rcv EXCEPT !.cur = IF h = m.hi THEN << >> ELSE <<Data(h, m.hi)>>,
                               !.used = @ - rcv.cost]
  /\ UNCHANGED <<snd, wire, broken>>

\* write_all: as much as fits.  The permit goes when all of it is written.
PumpWrite ==
  /\ rcv.pump = "run" /\ rcv.cur # << >> /\ ~app.gone /\ app.level < PipeBytes
  /\ LET m == Head(rcv.cur)
         room == m.lo + (PipeBytes - app.level)
         h == IF m.hi <= room THEN m.hi ELSE room
     IN  /\ app' = [app EXCEPT !.pipe = Append(@, ChunkOf(m.lo, h)), !.level = @ + (h - m.lo)]
         /\ rcv' = IF h = m.hi
                   THEN [rcv EXCEPT !.cur = << >>, !.used = @ - rcv.cost, !.cost = 0]
                   ELSE [rcv EXCEPT !.cur = <<Data(h, m.hi)>>]
  /\ UNCHANGED <<snd, wire, broken>>

\* The application's end of the pipe is gone: the write fails.
PumpFail ==
  /\ rcv.pump = "run" /\ rcv.cur # << >> /\ app.gone
  /\ rcv' = Stopped("off")
  /\ UNCHANGED <<snd, wire, app, broken>>

\* The stream was removed and its channel is empty.
PumpEnd ==
  /\ rcv.pump = "run" /\ rcv.cur = << >> /\ rcv.chan = << >> /\ ~rcv.slot
  /\ rcv' = Stopped("off")
  /\ UNCHANGED <<snd, wire, app, broken>>

\* The stream was removed and the application did not read for STREAM_CLOSE_TIMEOUT.
PumpTimeout ==
  /\ rcv.pump = "run" /\ rcv.cur # << >> /\ ~rcv.slot /\ app.level >= PipeBytes
  /\ rcv' = Stopped("off")
  /\ UNCHANGED <<snd, wire, app, broken>>

\* Stream::read with a buffer of some size.
Read ==
  /\ app.pipe # << >> /\ ~app.gone
  /\ LET c == Head(app.pipe)
     IN  \E h \in c.lo + 1 .. c.hi :
           app' = [app EXCEPT !.got = Append(@, ChunkOf(c.lo, h)), !.level = @ - (h - c.lo),
                              !.pipe = IF h = c.hi THEN Tail(@) ELSE <<ChunkOf(h, c.hi)>> \o Tail(@)]
  /\ UNCHANGED <<snd, wire, rcv, broken>>

\* Stream::read returns 0: the pump task has shut its end down or dropped it.
ReadEof ==
  /\ app.pipe = << >> /\ rcv.pump # "run" /\ ~app.gone /\ ~app.eof
  /\ app' = [app EXCEPT !.eof = TRUE]
  /\ UNCHANGED <<snd, wire, rcv, broken>>

\* The application drops its handle.
ReaderGone ==
  /\ Breaks /\ ~app.gone
  /\ app' = [app EXCEPT !.gone = TRUE]
  /\ UNCHANGED <<snd, wire, rcv, broken>>

-----------------------------------------------------------------------------
SenderStep ==
  \/ WriteCheck \/ WriteQueue \/ WriteCancel \/ SendFin \/ SenderReset
  \/ WriteControl \/ WriteFrame

ReceiverStep ==
  \/ ReceivePush \/ ReceiveFin \/ LateFin \/ Remove
  \/ PumpTake \/ PumpWrite \/ PumpFail \/ PumpEnd \/ PumpTimeout

ReaderStep == Read \/ ReadEof \/ ReaderGone

Next == SenderStep \/ ReceiverStep \/ ReaderStep

Spec == Init /\ [][Next]_vars

\* The session's tasks run, and the application reads until end of file or drops its
\* handle.  Nothing is assumed of the writing application.
Fairness ==
  /\ WF_vars(WriteControl) /\ WF_vars(WriteFrame)
  /\ WF_vars(ReceivePush) /\ WF_vars(ReceiveFin) /\ WF_vars(LateFin)
  /\ WF_vars(PumpTake) /\ WF_vars(PumpWrite) /\ WF_vars(PumpFail) /\ WF_vars(PumpEnd)
  /\ WF_vars(Read) /\ WF_vars(ReadEof)

FairSpec == Spec /\ Fairness

-----------------------------------------------------------------------------
(* Properties.                                                             *)

\* Queues, channel and pipe hold what their declarations in session.rs allow.
TypeOK ==
  /\ snd \in Sender /\ wire \in Seq(Msg) /\ rcv \in Receiver /\ app \in Reader
  /\ broken \in BOOLEAN

\* Frames, messages, pipe and pump together are a byte stream (ByteStream): the
\* application reads what was written, in order, once, without a gap, whatever is
\* removed or overflows on the way; end of file means that everything written before
\* the FIN was read, unless the stream was broken off (receive_loop, the pump task,
\* on_receive_fin_cmd and the task it spawns when the channel is full).
Abstract == INSTANCE ByteStream WITH written <- snd.next, fin <- snd.fin,
                                     upto <- snd.upto, got <- app.got, eof <- app.eof

Delivers == Abstract!Spec

\* However slowly the application reads, the session holds no more of the stream than
\* INBOUND_PUSH_QUEUE_BYTES and the pipe (push_slots and their permits).
BacklogBounded ==
  rcv.pump = "run" => rcv.in - End(app.got, 0) <= PushBytes + PipeBytes

\* Once the writer has sent its FIN, a reader that goes on reading meets end of file,
\* although the FIN may find the channel full, and although the stream may be removed
\* at either end before the FIN arrives.
EndIsReached == snd.fin ~> app.eof \/ app.gone
=============================================================================
