------------------------------ MODULE Heartbeat ------------------------------
(***************************************************************************)
(* The clocks of a client session: do_heartbeat_task, the deadline that    *)
(* background_task puts on a write, and the receive loop, whose frames     *)
(* restart both.  Time is discrete; a ready task runs before time passes,  *)
(* and the network may take any time over a write, a request or an answer. *)
(***************************************************************************)
EXTENDS Naturals, Sequences

CONSTANTS
  Interval,       \* HEARTBEAT_INTERVAL
  QueueTimeout,   \* HEARTBEAT_QUEUE_TIMEOUT
  WriteTimeout,   \* WRITE_TIMEOUT
  Timeout,        \* HEARTBEAT_TIMEOUT
  QueueSize       \* capacity of the control queue

ASSUME HeartbeatAssumption ==
  /\ Interval \in Nat \ {0} /\ QueueTimeout \in Nat \ {0} /\ WriteTimeout \in Nat \ {0}
  /\ Timeout \in Nat \ {0} /\ QueueSize \in Nat \ {0}

VARIABLES
  beat,    \* the heartbeat task
  ctl,     \* the control queue: requests of this task and of others
  writer,  \* the writer task and the request it is writing
  net,     \* heartbeats on their way: requests, those the peer has read, answers
  link     \* the session, and when it last heard from its peer

hbVars == <<beat, ctl, writer, net, link>>

\* The longest an open session may have heard nothing: a tick, the admission to the
\* queue, the write of what is being written and of all the queue holds, the answer.
MaxQuiet == Interval + QueueTimeout + (QueueSize + 1) * WriteTimeout + Timeout

Request == {"beat", "other"}

BeatType ==
  [pc   : {"tick", "queue", "write", "wait", "off"},
   tick : 0 .. Interval,   \* time to the ticker's next tick
   left : Nat,             \* time to the deadline of the step it is in
   done : BOOLEAN,         \* its write has completed
   resp : BOOLEAN,         \* heart_response was notified since it was enabled
   act  : BOOLEAN]         \* inbound_activity was notified since it was enabled

WriterType ==
  [job : Request \cup {"none", "off"}, left : 0 .. WriteTimeout, act : BOOLEAN]

LinkType ==
  [open     : BOOLEAN,
   version  : {0, 2},      \* peer_version
   cause    : {"none", "answer", "write", "queue", "other"},   \* why it was closed
   quiet    : 0 .. MaxQuiet + 1,   \* time since the last inbound frame
   past     : 0 .. MaxQuiet + 1,   \* the same, leaving out what came at this very instant
   answered : BOOLEAN]     \* history: the answer came before the deadline

HbInit ==
  /\ beat = [pc |-> "tick", tick |-> Interval, left |-> 0, done |-> FALSE,
             resp |-> FALSE, act |-> FALSE]
  /\ ctl = << >>
  /\ writer = [job |-> "none", left |-> 0, act |-> FALSE]
  /\ net = [out |-> 0, held |-> 0, back |-> 0]
  /\ link = [open |-> TRUE, version |-> 0, cause |-> "none", quiet |-> 0, past |-> 0,
             answered |-> FALSE]

\* Session::shutdown, or the writer's closed flag and token.
Closed(why) ==
  [link EXCEPT !.open = FALSE, !.cause = IF link.open THEN why ELSE @]

-----------------------------------------------------------------------------
(* do_heartbeat_task.                                                      *)

\* The ticker's time has come (a late tick puts off the next one).  A peer that has not
\* announced version 2 is not asked; else heart_response is enabled before anything is sent.
Tick ==
  /\ link.open /\ beat.pc = "tick" /\ beat.tick = 0
  /\ beat' = IF link.version < 2 THEN [beat EXCEPT !.tick = Interval]
             ELSE [pc |-> "queue", tick |-> Interval, left |-> QueueTimeout,
                   done |-> FALSE, resp |-> FALSE, act |-> FALSE]
  /\ link' = [link EXCEPT !.answered = FALSE]
  /\ UNCHANGED <<ctl, writer, net>>

\* write_heartbeat gets its place in the queue, and waits for the write.
Admit ==
  /\ link.open /\ beat.pc = "queue" /\ Len(ctl) < QueueSize
  /\ beat' = [beat EXCEPT !.pc = "write"]
  /\ ctl' = Append(ctl, "beat")
  /\ UNCHANGED <<writer, net, link>>

\* Mutant: admission to the queue is waited for without a limit.
AdmitLateNever ==
  /\ link.open /\ beat.pc = "queue" /\ beat.left = 0 /\ Len(ctl) = QueueSize
  /\ beat' = [beat EXCEPT !.left = QueueTimeout]
  /\ UNCHANGED <<ctl, writer, net, link>>

\* HEARTBEAT_QUEUE_TIMEOUT has passed without a place: the session is shut down.
AdmitLate ==
  /\ link.open /\ beat.pc = "queue" /\ beat.left = 0 /\ Len(ctl) = QueueSize
  /\ beat' = [beat EXCEPT !.pc = "off"]
  /\ link' = Closed("queue")
  /\ UNCHANGED <<ctl, writer, net>>

\* Mutant: heart_response is enabled only when the answer is waited for.
AwaitEnabledLate ==
  /\ link.open /\ beat.pc = "write" /\ beat.done
  /\ beat' = [beat EXCEPT !.pc = "wait", !.left = Timeout, !.act = FALSE, !.resp = FALSE]
  /\ UNCHANGED <<ctl, writer, net, link>>

\* The request is written: wait for the answer.
Await ==
  /\ link.open /\ beat.pc = "write" /\ beat.done
  /\ beat' = [beat EXCEPT !.pc = "wait", !.left = Timeout, !.act = FALSE]
  /\ UNCHANGED <<ctl, writer, net, link>>

Answered ==
  /\ link.open /\ beat.pc = "wait" /\ beat.resp
  /\ beat' = [beat EXCEPT !.pc = "tick"]
  /\ UNCHANGED <<ctl, writer, net, link>>

\* Any inbound frame starts the wait anew.
Activity ==
  /\ link.open /\ beat.pc = "wait" /\ beat.act
  /\ beat' = [beat EXCEPT !.left = Timeout, !.act = FALSE]
  /\ UNCHANGED <<ctl, writer, net, link>>

\* The select is not biased: the deadline may win over what came at the same instant.
AnswerLate ==
  /\ link.open /\ beat.pc = "wait" /\ beat.left = 0
  /\ beat' = [beat EXCEPT !.pc = "off"]
  /\ link' = Closed("answer")
  /\ UNCHANGED <<ctl, writer, net>>

BeatEnds ==
  /\ ~link.open /\ beat.pc # "off"
  /\ beat' = [beat EXCEPT !.pc = "off"]
  /\ UNCHANGED <<ctl, writer, net, link>>

-----------------------------------------------------------------------------
(* background_task, and those who give it something to write.              *)

\* queue_control or write_control of another frame.
OtherControl ==
  /\ link.open /\ Len(ctl) < QueueSize
  /\ ctl' = Append(ctl, "other")
  /\ UNCHANGED <<beat, writer, net, link>>

Writing(r) == [job |-> r, left |-> WriteTimeout, act |-> FALSE]

TakeControl ==
  /\ writer.job = "none" /\ ctl # << >> /\ link.open
  /\ writer' = Writing(Head(ctl))
  /\ ctl' = Tail(ctl)
  /\ UNCHANGED <<beat, net, link>>

\* Data is written when the control queue is empty.
TakeData ==
  /\ writer.job = "none" /\ ctl = << >> /\ link.open
  /\ writer' = Writing("other")
  /\ UNCHANGED <<beat, ctl, net, link>>

\* write_conn returns, and the task that waits for it is told.
WriteDone ==
  /\ writer.job \in Request /\ link.open
  /\ writer' = [job |-> "none", left |-> 0, act |-> FALSE]
  /\ IF writer.job = "beat"
     THEN beat' = [beat EXCEPT !.done = TRUE] /\ net' = [net EXCEPT !.out = @ + 1]
     ELSE UNCHANGED <<beat, net>>
  /\ UNCHANGED <<ctl, link>>

\* An inbound frame puts the deadline of the write off.
WriteActivity ==
  /\ writer.job \in Request /\ writer.act /\ link.open
  /\ writer' = [writer EXCEPT !.left = WriteTimeout, !.act = FALSE]
  /\ UNCHANGED <<beat, ctl, net, link>>

\* The write fails, or is late: the requester is told, and the session closed.
WriteFails ==
  /\ writer.job \in Request /\ link.open
  /\ \/ link' = Closed("other")
     \/ writer.left = 0 /\ ~writer.act /\ link' = Closed("write")
  /\ writer' = [writer EXCEPT !.job = "off"]
  /\ UNCHANGED <<beat, ctl, net>>

WriterEnds ==
  /\ ~link.open /\ writer.job # "off"
  /\ writer' = [writer EXCEPT !.job = "off"]
  /\ UNCHANGED <<beat, ctl, net, link>>

-----------------------------------------------------------------------------
(* The receive loops of both ends.                                         *)

\* The peer reads a HeartRequest, queues the HeartResponse, and writes it.
PeerReads ==
  /\ net.out > 0
  /\ net' = [net EXCEPT !.out = @ - 1, !.held = @ + 1]
  /\ UNCHANGED <<beat, ctl, writer, link>>

PeerAnswers ==
  /\ net.held > 0
  /\ net' = [net EXCEPT !.held = @ - 1, !.back = @ + 1]
  /\ UNCHANGED <<beat, ctl, writer, link>>

\* inbound_activity.notify_waiters: who waits now is told, nobody else.
Heard(b) == [b EXCEPT !.act = @ \/ b.pc = "wait"]
Noticed == writer' = [writer EXCEPT !.act = @ \/ writer.job \in Request]

ReceiveResponse ==
  /\ link.open /\ net.back > 0
  /\ net' = [net EXCEPT !.back = @ - 1]
  /\ beat' = Heard([beat EXCEPT !.resp = @ \/ beat.pc \in {"queue", "write", "wait"}])
  /\ Noticed
  /\ link' = [link EXCEPT !.quiet = 0,
                          !.answered = @ \/ ~(beat.pc = "wait" /\ beat.left = 0)]
  /\ UNCHANGED ctl

\* ServerSettings, or any frame that says nothing to these tasks.
ReceiveOther ==
  /\ link.open
  /\ \E v \in {link.version, 2} : link' = [link EXCEPT !.quiet = 0, !.version = v]
  /\ beat' = Heard(beat)
  /\ Noticed
  /\ UNCHANGED <<ctl, net>>

\* The transport ends, the peer sends an alert, another task shuts the session down.
ReceiveEnds ==
  /\ link.open
  /\ link' = Closed("other")
  /\ UNCHANGED <<beat, ctl, writer, net>>

-----------------------------------------------------------------------------
(* Time.                                                                   *)

\* A task has something to do at this instant.
Ready ==
  \/ ~link.open
  \/ beat.pc = "tick" /\ beat.tick = 0
  \/ beat.pc = "queue" /\ (beat.left = 0 \/ Len(ctl) < QueueSize)
  \/ beat.pc = "write" /\ beat.done
  \/ beat.pc = "wait" /\ (beat.left = 0 \/ beat.resp \/ beat.act)
  \/ writer.job = "none" /\ ctl # << >>
  \/ writer.job \in Request /\ (writer.left = 0 \/ writer.act)

Less(n) == IF n = 0 THEN 0 ELSE n - 1
Quieter == IF link.quiet > MaxQuiet THEN link.quiet ELSE link.quiet + 1

Elapse ==
  /\ ~Ready
  /\ beat' = [beat EXCEPT !.tick = Less(@), !.left = Less(@)]
  /\ writer' = [writer EXCEPT !.left = Less(@)]
  /\ link' = [link EXCEPT !.quiet = Quieter, !.past = Quieter]
  /\ UNCHANGED <<ctl, net>>

-----------------------------------------------------------------------------
BeatStep ==
  \/ Tick \/ Admit \/ AdmitLate \/ Await \/ Answered \/ Activity \/ AnswerLate \/ BeatEnds

WriterStep ==
  \/ OtherControl \/ TakeControl \/ TakeData \/ WriteDone \/ WriteActivity \/ WriteFails
  \/ WriterEnds

NetStep == PeerReads \/ PeerAnswers \/ ReceiveResponse \/ ReceiveOther \/ ReceiveEnds

HbNext == BeatStep \/ WriterStep \/ NetStep \/ Elapse

HbSpec == HbInit /\ [][HbNext]_hbVars

-----------------------------------------------------------------------------
(* Properties.                                                             *)

\* The tasks' clocks and flags stay in range (do_heartbeat_task, background_task).
HbTypeOK ==
  /\ beat \in BeatType /\ writer \in WriterType /\ link \in LinkType
  /\ ctl \in Seq(Request) /\ Len(ctl) <= QueueSize
  /\ net \in [out : Nat, held : Nat, back : Nat]

\* A session is closed for a missing answer only when the answer had not come, nor any
\* other frame, for HEARTBEAT_TIMEOUT, and for a late write only when nothing had come for
\* WRITE_TIMEOUT: an answer that overtakes the news of the write is not missed
\* (do_heartbeat_task enables heart_response first), and traffic counts as a sign of life.
NoFalseAlarm ==
  /\ link.cause = "answer" => link.past >= Timeout /\ ~link.answered
  /\ link.cause = "write" => link.past >= WriteTimeout

\* A peer that has fallen silent is found out: an open session with a peer of version 2
\* has heard something within MaxQuiet, wherever the queue or the transport is stuck.
StalledIsClosed == link.open /\ link.version = 2 => link.quiet <= MaxQuiet

\* One heartbeat is out at a time, so that no answer can be taken for that of another
\* request: a new one is sent only after the answer to the last one (do_heartbeat_task).
OneHeartbeat ==
  /\ net.out + net.held + net.back <= 1
  /\ net.out + net.held + net.back = 1 /\ link.open =>
       beat.done /\ beat.pc \in {"write", "wait"}
=============================================================================
