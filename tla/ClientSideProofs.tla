-------------------------- MODULE ClientSideProofs --------------------------
(***************************************************************************)
(* The clocks of a session, for every length of its intervals and every    *)
(* size of the control queue: one heartbeat at a time, no false alarm, and *)
(* no silence longer than MaxQuiet.  And the client application, for every *)
(* number of calls of run and of connections and every set of requests and *)
(* methods: one client at a time, and the protocol of a request found      *)
(* however its bytes arrive.                                               *)
(*                                                                         *)
(* Silence and the time left to the next step of the task add up to a      *)
(* bound for each place the heartbeat can be in: the ticker, the door of   *)
(* the queue, position i of it (with i writes to come), the writer, the    *)
(* wait for the answer.  Time passes only when no task is ready, so that   *)
(* it takes from the one what it adds to the other.                        *)
(***************************************************************************)
EXTENDS Heartbeat, ClientApp, TLAPS

-----------------------------------------------------------------------------
(* The clocks of a session.                                                *)

Total == net.out + net.held + net.back

\* The heartbeat is queued or being written.
Asked == beat.pc = "write" /\ ~beat.done

\* The time the writes of n requests may take.
Writes(n) == n * WriteTimeout

\* What is left of the write at hand.
AtHand == IF writer.job \in Request THEN writer.left ELSE 0

\* One heartbeat: it is in the queue, with the writer, or out; its answer comes after that.
Single ==
  /\ Total <= 1
  /\ \A i, j \in 1 .. Len(ctl) : ctl[i] = "beat" /\ ctl[j] = "beat" => i = j
  /\ link.open =>
       /\ beat.pc # "off" /\ writer.job # "off"
       /\ \A i \in 1 .. Len(ctl) : ctl[i] = "beat" => Asked /\ writer.job # "beat"
       /\ writer.job = "beat" => Asked
       /\ Asked => writer.job = "beat" \/ \E i \in 1 .. Len(ctl) : ctl[i] = "beat"
       /\ Total = 1 => beat.done /\ beat.pc \in {"write", "wait"}
       /\ beat.pc = "queue" => ~beat.done
       /\ beat.pc = "wait" => beat.done
       /\ beat.pc # "tick" /\ beat.resp => beat.done /\ Total = 0

\* A deadline that has come means that nothing was heard since it was set.
Deadlines ==
  link.open =>
    /\ link.cause = "none"
    /\ beat.pc = "wait" =>
         /\ beat.left + link.past >= Timeout /\ (beat.act \/ beat.left + link.quiet >= Timeout)
         /\ link.answered => beat.resp /\ beat.left > 0
    /\ beat.pc \in {"queue", "write"} /\ link.answered => beat.resp
    /\ writer.job \in Request =>
         /\ writer.left + link.past >= WriteTimeout
         /\ writer.act \/ writer.left + link.quiet >= WriteTimeout

\* What was just heard has not been followed by silence yet.
JustHeard ==
  link.open =>
    /\ beat.pc = "wait" /\ beat.act => link.quiet = 0
    /\ writer.job \in Request /\ writer.act => link.quiet = 0
    /\ beat.pc # "tick" /\ beat.resp => link.quiet = 0
    /\ beat.pc = "queue" => beat.left <= QueueTimeout
    /\ beat.pc = "wait" => beat.left <= Timeout

\* Silence and the time left to the task's next step, together, are bounded.
Silence ==
  link.open /\ link.version = 2 =>
    /\ beat.pc = "tick" => link.quiet + beat.tick <= Interval
    /\ beat.pc = "queue" => link.quiet + beat.left <= Interval + QueueTimeout
    /\ writer.job = "beat" =>
         link.quiet + writer.left <= Interval + QueueTimeout + Writes(QueueSize + 1)
    /\ \A i \in 1 .. Len(ctl) : ctl[i] = "beat" =>
         link.quiet + AtHand + Writes(i) <= Interval + QueueTimeout + Writes(QueueSize + 1)
    /\ beat.pc = "write" => link.quiet <= Interval + QueueTimeout + Writes(QueueSize + 1)
    /\ beat.pc = "wait" => link.quiet + beat.left <= MaxQuiet

\* The inductive invariant.
HbInv == HbTypeOK /\ Single /\ Deadlines /\ JustHeard /\ Silence /\ NoFalseAlarm

\* The time of n writes grows with n.
LEMMA WritesFacts ==
  /\ \A n \in Nat : Writes(n) \in Nat /\ Writes(n + 1) = Writes(n) + WriteTimeout
  /\ \A n, m \in Nat : n <= m => Writes(n) <= Writes(m)
<1>1. WriteTimeout \in Nat
  BY HeartbeatAssumption
<1>2. \A n \in Nat : /\ n * WriteTimeout \in Nat
                     /\ (n + 1) * WriteTimeout = n * WriteTimeout + WriteTimeout
  BY <1>1
<1>3. ASSUME NEW n \in Nat, NEW m \in Nat, n <= m PROVE n * WriteTimeout <= m * WriteTimeout
  <2>1. m * WriteTimeout = n * WriteTimeout + (m - n) * WriteTimeout /\ m - n \in Nat
    BY <1>1, <1>3
  <2>2. (m - n) * WriteTimeout \in Nat /\ n * WriteTimeout \in Nat
    BY <1>1, <2>1
  <2>. QED  BY <2>1, <2>2
<1>. QED  BY <1>2, <1>3 DEF Writes

\* The constants are positive.
LEMMA Constants ==
  /\ Interval \in Nat \ {0} /\ QueueTimeout \in Nat \ {0} /\ WriteTimeout \in Nat \ {0}
  /\ Timeout \in Nat \ {0} /\ QueueSize \in Nat \ {0}
BY HeartbeatAssumption

\* The longest silence in terms of the constants.
LEMMA Longest ==
  /\ Writes(QueueSize + 1) \in Nat /\ Writes(QueueSize) \in Nat
  /\ Writes(QueueSize + 1) = Writes(QueueSize) + WriteTimeout
  /\ MaxQuiet = Interval + QueueTimeout + Writes(QueueSize + 1) + Timeout
  /\ MaxQuiet \in Nat /\ Timeout <= MaxQuiet /\ WriteTimeout <= MaxQuiet
<1>1. /\ Writes(QueueSize) \in Nat /\ Writes(QueueSize + 1) = Writes(QueueSize) + WriteTimeout
  BY Constants, WritesFacts
<1>2. MaxQuiet = Interval + QueueTimeout + Writes(QueueSize + 1) + Timeout
  BY Constants DEF MaxQuiet, Writes
<1>. QED  BY <1>1, <1>2, Constants

\* Silence, a write at hand and the writes of the queue add up.
LEMMA Sums ==
  ASSUME NEW q \in Nat, NEW h \in Nat, NEW w \in Nat,
         q <= Interval + QueueTimeout, h <= WriteTimeout, w <= Writes(QueueSize)
  PROVE  /\ q <= Interval + QueueTimeout + Writes(QueueSize + 1)
         /\ q + h + w <= Interval + QueueTimeout + Writes(QueueSize + 1)
<1>1. /\ Interval \in Nat /\ QueueTimeout \in Nat /\ WriteTimeout \in Nat
      /\ Writes(QueueSize) \in Nat /\ Writes(QueueSize + 1) = Writes(QueueSize) + WriteTimeout
  BY Constants, Longest
<1>. QED  BY <1>1

\* No session starts with an alarm.
LEMMA HbInitInv == HbInit => HbInv
<1> SUFFICES ASSUME HbInit PROVE HbInv
  OBVIOUS
<1>. USE Constants DEF HbInit
<1>1. HbTypeOK
  BY Longest DEF HbTypeOK, BeatType, WriterType, LinkType, Request
<1>2. Single
  BY DEF Single, Total, Asked
<1>3. Deadlines /\ JustHeard /\ NoFalseAlarm
  BY DEF Deadlines, JustHeard, NoFalseAlarm, Request
<1>4. Silence
  BY DEF Silence
<1>. QED  BY <1>1, <1>2, <1>3, <1>4 DEF HbInv

\* The parts of the state.
LEMMA Fields ==
  ASSUME HbTypeOK
  PROVE  /\ beat.tick \in Nat /\ beat.left \in Nat /\ beat.tick <= Interval
         /\ writer.left \in Nat /\ writer.left <= WriteTimeout
         /\ link.quiet \in Nat /\ link.past \in Nat
         /\ net.out \in Nat /\ net.held \in Nat /\ net.back \in Nat
         /\ Len(ctl) \in Nat /\ Len(ctl) <= QueueSize
<1>1. /\ beat.tick \in Nat /\ beat.left \in Nat /\ beat.tick <= Interval
      /\ writer.left \in Nat /\ writer.left <= WriteTimeout
  BY Constants DEF HbTypeOK, BeatType, WriterType
<1>2. link.quiet \in Nat /\ link.past \in Nat
  BY Longest DEF HbTypeOK, LinkType
<1>3. /\ net.out \in Nat /\ net.held \in Nat /\ net.back \in Nat
      /\ Len(ctl) \in Nat /\ Len(ctl) <= QueueSize
  BY DEF HbTypeOK
<1>. QED  BY <1>1, <1>2, <1>3

\* A tick finds the session quiet for no more than the interval.
LEMMA TickInv == ASSUME HbInv, Tick PROVE HbInv'
<1>1. /\ HbTypeOK /\ Single /\ Deadlines /\ JustHeard /\ Silence /\ NoFalseAlarm
      /\ link.open /\ beat.pc = "tick" /\ beat.tick = 0
      /\ ctl' = ctl /\ writer' = writer /\ net' = net
  BY DEF HbInv, Tick
<1>2. /\ link'.open = link.open /\ link'.version = link.version /\ link'.cause = link.cause
      /\ link'.quiet = link.quiet /\ link'.past = link.past /\ ~link'.answered
      /\ link' \in LinkType
  BY Zenon DEF HbInv, Tick, HbTypeOK, LinkType
<1>3. CASE link.version < 2
  <2>0. beat' = [beat EXCEPT !.tick = Interval] /\ beat \in BeatType
    BY <1>3 DEF HbInv, HbTypeOK, Tick
  <2>1. /\ beat'.pc = "tick" /\ beat'.tick = Interval /\ beat'.left = beat.left
        /\ beat'.done = beat.done /\ beat'.resp = beat.resp /\ beat'.act = beat.act
        /\ beat' \in BeatType
    BY <1>1, <2>0, Constants DEF BeatType
  <2>2. HbTypeOK'
    BY <1>1, <1>2, <2>1 DEF HbTypeOK
  <2>3. Single'
    BY <1>1, <1>2, <2>1 DEF Single, Total, Asked
  <2>4. Deadlines' /\ NoFalseAlarm' /\ JustHeard'
    BY <1>1, <1>2, <2>1 DEF Deadlines, NoFalseAlarm, JustHeard
  <2>5. Silence'
    BY <1>1, <1>2, <1>3, <2>1 DEF Silence
  <2>. QED  BY <2>2, <2>3, <2>4, <2>5 DEF HbInv
<1>4. CASE ~(link.version < 2)
  <2>0. beat' = [pc |-> "queue", tick |-> Interval, left |-> QueueTimeout,
                 done |-> FALSE, resp |-> FALSE, act |-> FALSE]
    BY <1>4 DEF Tick
  <2>1. /\ beat'.pc = "queue" /\ beat'.tick = Interval /\ beat'.left = QueueTimeout
        /\ ~beat'.done /\ ~beat'.resp /\ ~beat'.act /\ beat' \in BeatType
    BY <2>0, Constants DEF BeatType
  <2>2. HbTypeOK'
    BY <1>1, <1>2, <2>1 DEF HbTypeOK
  <2>3. Single'
    BY <1>1, <1>2, <2>1 DEF Single, Total, Asked
  <2>4. Deadlines' /\ NoFalseAlarm' /\ JustHeard'
    BY <1>1, <1>2, <2>1, Constants DEF Deadlines, NoFalseAlarm, JustHeard
  <2>5. Silence'
    <3>1. link.version = 2
      BY <1>1, <1>4 DEF HbTypeOK, LinkType
    <3>2. link.quiet + QueueTimeout <= Interval + QueueTimeout
      <4>1. link.quiet + beat.tick <= Interval
        BY <1>1, <3>1 DEF Silence
      <4>2. link.quiet \in Nat /\ Interval \in Nat /\ QueueTimeout \in Nat
        BY <1>1, Fields, Constants
      <4>. QED  BY <1>1, <4>1, <4>2
    <3>3. writer.job # "beat" /\ \A i \in 1 .. Len(ctl) : ctl[i] # "beat"
      BY <1>1 DEF Single, Asked
    <3>. QED  BY <1>1, <1>2, <2>1, <3>2, <3>3 DEF Silence
  <2>. QED  BY <2>2, <2>3, <2>4, <2>5 DEF HbInv
<1>. QED  BY <1>3, <1>4

\* A step into or after the end: only the alarm's reason matters.
LEMMA ClosedInv ==
  ASSUME HbInv, HbTypeOK', ~link'.open, ctl' = ctl, net' = net, NoFalseAlarm'
  PROVE  HbInv'
<1>1. Single'
  BY DEF HbInv, Single, Total
<1>2. Deadlines' /\ JustHeard' /\ Silence'
  BY DEF Deadlines, JustHeard, Silence
<1>. QED  BY <1>1, <1>2 DEF HbInv

\* What closing does to the link.
LEMMA ClosedEffect ==
  ASSUME HbInv, link.open, NEW why \in {"answer", "write", "queue", "other"}, link' = Closed(why)
  PROVE  /\ link' \in LinkType /\ ~link'.open /\ link'.cause = why
         /\ link'.past = link.past /\ link'.answered = link.answered
<1>1. link \in LinkType
  BY DEF HbInv, HbTypeOK
<1>2. link' = [link EXCEPT !.open = FALSE, !.cause = why]
  BY <1>1 DEF Closed, LinkType
<1>. QED  BY Zenon, <1>1, <1>2 DEF LinkType

\* The heartbeat task gives up for want of a place in the queue.
LEMMA AdmitLateInv == ASSUME HbInv, AdmitLate PROVE HbInv'
<1>1. /\ link.open /\ link' = Closed("queue") /\ ctl' = ctl /\ writer' = writer /\ net' = net
      /\ beat' = [beat EXCEPT !.pc = "off"] /\ HbTypeOK
  BY DEF AdmitLate, HbInv
<1>2. link' \in LinkType /\ ~link'.open /\ link'.cause = "queue"
  BY <1>1, ClosedEffect
<1>3. beat' \in BeatType
  BY <1>1 DEF HbTypeOK, BeatType
<1>4. HbTypeOK'
  BY <1>1, <1>2, <1>3 DEF HbTypeOK
<1>5. NoFalseAlarm'
  BY <1>2 DEF NoFalseAlarm
<1>. QED  BY <1>1, <1>2, <1>4, <1>5, ClosedInv

\* The answer's deadline has come: nothing was heard while it ran.
LEMMA AnswerLateInv == ASSUME HbInv, AnswerLate PROVE HbInv'
<1>1. /\ link.open /\ link' = Closed("answer") /\ ctl' = ctl /\ writer' = writer /\ net' = net
      /\ beat' = [beat EXCEPT !.pc = "off"] /\ HbTypeOK /\ beat.pc = "wait" /\ beat.left = 0
  BY DEF AnswerLate, HbInv
<1>2. /\ link' \in LinkType /\ ~link'.open /\ link'.cause = "answer"
      /\ link'.past = link.past /\ link'.answered = link.answered
  BY <1>1, ClosedEffect
<1>3. beat' \in BeatType
  BY <1>1 DEF HbTypeOK, BeatType
<1>4. HbTypeOK'
  BY <1>1, <1>2, <1>3 DEF HbTypeOK
<1>5. NoFalseAlarm'
  <2>1. beat.left + link.past >= Timeout /\ (link.answered => beat.left > 0)
    BY <1>1 DEF HbInv, Deadlines
  <2>2. link.past >= Timeout
    BY <1>1, <2>1, Fields, Constants
  <2>. QED  BY <1>1, <1>2, <2>1, <2>2 DEF NoFalseAlarm
<1>. QED  BY <1>1, <1>2, <1>4, <1>5, ClosedInv

\* A write fails, or its deadline has come: nothing was heard while it ran.
LEMMA WriteFailsInv == ASSUME HbInv, WriteFails PROVE HbInv'
<1>1. /\ link.open /\ ctl' = ctl /\ beat' = beat /\ net' = net /\ writer.job \in Request
      /\ writer' = [writer EXCEPT !.job = "off"] /\ HbTypeOK
  BY DEF WriteFails, HbInv
<1>2. writer' \in WriterType
  BY <1>1 DEF HbTypeOK, WriterType
<1>3. PICK why \in {"other", "write"} :
        link' = Closed(why) /\ (why = "write" => writer.left = 0)
  BY DEF WriteFails
<1>4. /\ link' \in LinkType /\ ~link'.open /\ link'.cause = why /\ link'.past = link.past
  BY <1>1, <1>3, ClosedEffect
<1>5. HbTypeOK'
  BY <1>1, <1>2, <1>4 DEF HbTypeOK
<1>6. why = "write" => link.past >= WriteTimeout
  <2>1. writer.left + link.past >= WriteTimeout
    BY <1>1 DEF HbInv, Deadlines
  <2>. QED  BY <1>1, <1>3, <2>1, Fields, Constants
<1>7. NoFalseAlarm'
  BY <1>3, <1>4, <1>6 DEF NoFalseAlarm
<1>. QED  BY <1>1, <1>4, <1>5, <1>7, ClosedInv

\* The transport ends.
LEMMA ReceiveEndsInv == ASSUME HbInv, ReceiveEnds PROVE HbInv'
<1>1. /\ link.open /\ link' = Closed("other") /\ ctl' = ctl /\ beat' = beat
      /\ writer' = writer /\ net' = net /\ HbTypeOK
  BY DEF ReceiveEnds, HbInv
<1>2. link' \in LinkType /\ ~link'.open /\ link'.cause = "other"
  BY <1>1, ClosedEffect
<1>3. HbTypeOK' /\ NoFalseAlarm'
  BY <1>1, <1>2 DEF HbTypeOK, NoFalseAlarm
<1>. QED  BY <1>1, <1>2, <1>3, ClosedInv

\* The tasks of a closed session end.
LEMMA EndsInv == ASSUME HbInv, BeatEnds \/ WriterEnds PROVE HbInv'
<1>1. ~link.open /\ link' = link /\ ctl' = ctl /\ net' = net /\ HbTypeOK /\ NoFalseAlarm
  BY DEF BeatEnds, WriterEnds, HbInv
<1>2. beat' \in BeatType /\ writer' \in WriterType
  <2>1. CASE BeatEnds
    BY <1>1, <2>1 DEF HbTypeOK, BeatType, BeatEnds
  <2>2. CASE WriterEnds
    BY <1>1, <2>2 DEF HbTypeOK, WriterType, WriterEnds
  <2>. QED  BY <2>1, <2>2
<1>3. HbTypeOK' /\ NoFalseAlarm'
  BY <1>1, <1>2 DEF HbTypeOK, NoFalseAlarm
<1>. QED  BY <1>1, <1>3, ClosedInv

\* The peer passes a request or an answer on.
LEMMA PeerInv == ASSUME HbInv, PeerReads \/ PeerAnswers PROVE HbInv'
<1>1. /\ beat' = beat /\ ctl' = ctl /\ writer' = writer /\ link' = link
      /\ HbTypeOK /\ Single /\ Deadlines /\ JustHeard /\ Silence /\ NoFalseAlarm
  BY DEF PeerReads, PeerAnswers, HbInv
<1>2. net' \in [out : Nat, held : Nat, back : Nat] /\ Total' = Total
  <2>1. net \in [out : Nat, held : Nat, back : Nat]
    BY <1>1 DEF HbTypeOK
  <2>2. CASE PeerReads
    <3>1. net.out > 0 /\ net' = [net EXCEPT !.out = net.out - 1, !.held = net.held + 1]
      BY <2>2 DEF PeerReads
    <3>2. net'.out = net.out - 1 /\ net'.held = net.held + 1 /\ net'.back = net.back
      BY <2>1, <3>1
    <3>3. net.out - 1 \in Nat /\ net.held + 1 \in Nat
      BY <2>1, <3>1
    <3>4. net' \in [out : Nat, held : Nat, back : Nat]
      BY Zenon, <2>1, <3>1, <3>3
    <3>. QED  BY <2>1, <3>2, <3>4 DEF Total
  <2>3. CASE PeerAnswers
    <3>1. net.held > 0 /\ net' = [net EXCEPT !.held = net.held - 1, !.back = net.back + 1]
      BY <2>3 DEF PeerAnswers
    <3>2. net'.out = net.out /\ net'.held = net.held - 1 /\ net'.back = net.back + 1
      BY <2>1, <3>1
    <3>3. net.held - 1 \in Nat /\ net.back + 1 \in Nat
      BY <2>1, <3>1
    <3>4. net' \in [out : Nat, held : Nat, back : Nat]
      BY Zenon, <2>1, <3>1, <3>3
    <3>. QED  BY <2>1, <3>2, <3>4 DEF Total
  <2>. QED  BY <2>2, <2>3
<1>3. HbTypeOK' /\ Single'
  BY <1>1, <1>2 DEF HbTypeOK, Single, Asked
<1>4. Deadlines' /\ JustHeard' /\ Silence' /\ NoFalseAlarm'
  BY <1>1 DEF Deadlines, JustHeard, Silence, AtHand, NoFalseAlarm
<1>. QED  BY <1>3, <1>4 DEF HbInv

\* The heartbeat is queued behind at most QueueSize - 1 others and the write at hand.
LEMMA AdmitInv == ASSUME HbInv, Admit PROVE HbInv'
<1>1. /\ HbTypeOK /\ Single /\ Deadlines /\ JustHeard /\ Silence /\ NoFalseAlarm
      /\ link.open /\ beat.pc = "queue" /\ Len(ctl) < QueueSize /\ ctl \in Seq(Request)
      /\ beat \in BeatType /\ beat' = [beat EXCEPT !.pc = "write"] /\ ctl' = Append(ctl, "beat")
      /\ writer' = writer /\ net' = net /\ link' = link
  BY DEF HbInv, HbTypeOK, Admit
<1>2. /\ beat'.pc = "write" /\ beat'.tick = beat.tick /\ beat'.left = beat.left
      /\ beat'.done = beat.done /\ beat'.resp = beat.resp /\ beat'.act = beat.act
      /\ beat' \in BeatType
  BY SMTT(30), <1>1 DEF BeatType
<1>3. /\ ctl' \in Seq(Request) /\ Len(ctl') = Len(ctl) + 1 /\ ctl'[Len(ctl) + 1] = "beat"
      /\ \A i \in 1 .. Len(ctl) : ctl'[i] = ctl[i]
  BY <1>1 DEF Request
<1>4. /\ ~beat.done /\ ~beat.resp /\ writer.job # "beat"
      /\ \A i \in 1 .. Len(ctl) : ctl[i] # "beat"
  BY <1>1 DEF Single, Asked
<1>5. \A i \in 1 .. Len(ctl') : ctl'[i] = "beat" => i = Len(ctl) + 1
  BY <1>1, <1>3, <1>4, Fields
<1>6. HbTypeOK'
  BY <1>1, <1>2, <1>3, Fields, Constants DEF HbTypeOK
<1>7. Single'
  <2>1. Len(ctl) + 1 \in 1 .. Len(ctl')
    BY <1>1, <1>3, Fields
  <2>. QED  BY <1>1, <1>2, <1>3, <1>4, <1>5, <2>1 DEF Single, Asked, Total
<1>8. Deadlines' /\ JustHeard' /\ NoFalseAlarm'
  BY <1>1, <1>2 DEF Deadlines, JustHeard, NoFalseAlarm
<1>9. Silence'
  <2> SUFFICES ASSUME link.version = 2 PROVE Silence'
    BY <1>1 DEF Silence
  <2>0. /\ link.quiet \in Nat /\ beat.left \in Nat /\ Len(ctl) \in Nat
        /\ Len(ctl) + 1 <= QueueSize /\ writer.left \in Nat /\ writer.left <= WriteTimeout
    BY <1>1, Fields, Constants
  <2>1. link.quiet <= Interval + QueueTimeout
    <3>1. link.quiet + beat.left <= Interval + QueueTimeout
      BY <1>1 DEF Silence
    <3>. QED  BY <2>0, <3>1, Constants
  <2>2. AtHand' \in Nat /\ AtHand' <= WriteTimeout
    <3>1. AtHand' = AtHand
      BY <1>1 DEF AtHand
    <3>. QED  BY <2>0, <3>1, Constants DEF AtHand
  <2>3. Writes(Len(ctl) + 1) \in Nat /\ Writes(Len(ctl) + 1) <= Writes(QueueSize)
    BY <2>0, Constants, WritesFacts
  <2>4. /\ link.quiet <= Interval + QueueTimeout + Writes(QueueSize + 1)
        /\ link.quiet + AtHand' + Writes(Len(ctl) + 1)
             <= Interval + QueueTimeout + Writes(QueueSize + 1)
    BY Zenon, <2>0, <2>1, <2>2, <2>3, Constants, Longest, Sums
  <2>. QED  BY <1>1, <1>2, <1>4, <1>5, <2>4 DEF Silence
<1>. QED  BY <1>6, <1>7, <1>8, <1>9 DEF HbInv

\* The wait for the answer begins.
LEMMA AwaitInv == ASSUME HbInv, Await PROVE HbInv'
<1>1. /\ HbTypeOK /\ Single /\ Deadlines /\ JustHeard /\ Silence /\ NoFalseAlarm
      /\ link.open /\ beat.pc = "write" /\ beat.done /\ beat \in BeatType
      /\ beat' = [beat EXCEPT !.pc = "wait", !.left = Timeout, !.act = FALSE]
      /\ ctl' = ctl /\ writer' = writer /\ net' = net /\ link' = link
  BY DEF HbInv, HbTypeOK, Await
<1>2. /\ beat'.pc = "wait" /\ beat'.tick = beat.tick /\ beat'.left = Timeout
      /\ beat'.done = beat.done /\ beat'.resp = beat.resp /\ ~beat'.act /\ beat' \in BeatType
  BY Zenon, <1>1, Constants DEF BeatType
<1>3. HbTypeOK' /\ NoFalseAlarm'
  BY <1>1, <1>2 DEF HbTypeOK, NoFalseAlarm
<1>4. Single'
  BY <1>1, <1>2 DEF Single, Asked, Total
<1>5. Deadlines'
  <2>1. Timeout + link.past >= Timeout /\ Timeout + link.quiet >= Timeout /\ Timeout > 0
    <3>1. link.past \in Nat /\ link.quiet \in Nat
      BY <1>1, Fields
    <3>. QED  BY <3>1, Constants
  <2>. QED  BY <1>1, <1>2, <2>1 DEF Deadlines
<1>6. JustHeard'
  BY <1>1, <1>2, Constants DEF JustHeard
<1>7. Silence'
  <2> SUFFICES ASSUME link.version = 2 PROVE Silence'
    BY <1>1 DEF Silence
  <2>1. link.quiet <= Interval + QueueTimeout + Writes(QueueSize + 1)
    BY <1>1 DEF Silence
  <2>2. link.quiet + Timeout <= MaxQuiet
    <3>1. link.quiet \in Nat
      BY <1>1, Fields
    <3>. QED  BY <2>1, <3>1, Constants, Longest
  <2>3. writer.job # "beat" /\ \A i \in 1 .. Len(ctl) : ctl[i] # "beat"
    BY <1>1 DEF Single, Asked
  <2>. QED  BY <1>1, <1>2, <2>2, <2>3 DEF Silence
<1>. QED  BY <1>3, <1>4, <1>5, <1>6, <1>7 DEF HbInv

\* The answer has come, and with it the end of the silence.
LEMMA AnsweredInv == ASSUME HbInv, Answered PROVE HbInv'
<1>1. /\ HbTypeOK /\ Single /\ Deadlines /\ JustHeard /\ Silence /\ NoFalseAlarm
      /\ link.open /\ beat.pc = "wait" /\ beat.resp /\ beat \in BeatType
      /\ beat' = [beat EXCEPT !.pc = "tick"]
      /\ ctl' = ctl /\ writer' = writer /\ net' = net /\ link' = link
  BY DEF HbInv, HbTypeOK, Answered
<1>2. /\ beat'.pc = "tick" /\ beat'.tick = beat.tick /\ beat'.left = beat.left
      /\ beat'.done = beat.done /\ beat'.resp = beat.resp /\ beat' \in BeatType
  BY Zenon, <1>1 DEF BeatType
<1>3. HbTypeOK' /\ NoFalseAlarm'
  BY <1>1, <1>2 DEF HbTypeOK, NoFalseAlarm
<1>4. /\ Total = 0 /\ link.quiet = 0 /\ writer.job # "beat"
      /\ \A i \in 1 .. Len(ctl) : ctl[i] # "beat"
  BY <1>1 DEF Single, JustHeard, Asked
<1>5. Single'
  BY <1>1, <1>2, <1>4 DEF Single, Asked, Total
<1>6. Deadlines' /\ JustHeard'
  BY <1>1, <1>2 DEF Deadlines, JustHeard
<1>7. Silence'
  <2>1. link.quiet + beat.tick <= Interval
    BY <1>1, <1>4, Fields, Constants
  <2>. QED  BY <1>1, <1>2, <1>4, <2>1 DEF Silence
<1>. QED  BY <1>3, <1>5, <1>6, <1>7 DEF HbInv

\* A frame has come, and the wait starts anew.
LEMMA ActivityInv == ASSUME HbInv, Activity PROVE HbInv'
<1>1. /\ HbTypeOK /\ Single /\ Deadlines /\ JustHeard /\ Silence /\ NoFalseAlarm
      /\ link.open /\ beat.pc = "wait" /\ beat.act /\ beat \in BeatType
      /\ beat' = [beat EXCEPT !.left = Timeout, !.act = FALSE]
      /\ ctl' = ctl /\ writer' = writer /\ net' = net /\ link' = link
  BY DEF HbInv, HbTypeOK, Activity
<1>2. /\ beat'.pc = "wait" /\ beat'.tick = beat.tick /\ beat'.left = Timeout
      /\ beat'.done = beat.done /\ beat'.resp = beat.resp /\ ~beat'.act /\ beat' \in BeatType
  BY Zenon, <1>1, Constants DEF BeatType
<1>3. HbTypeOK' /\ NoFalseAlarm'
  BY <1>1, <1>2 DEF HbTypeOK, NoFalseAlarm
<1>4. Single'
  BY <1>1, <1>2 DEF Single, Asked, Total
<1>5. Deadlines'
  <2>1. Timeout + link.past >= Timeout /\ Timeout + link.quiet >= Timeout /\ Timeout > 0
    <3>1. link.past \in Nat /\ link.quiet \in Nat
      BY <1>1, Fields
    <3>. QED  BY <3>1, Constants
  <2>. QED  BY <1>1, <1>2, <2>1 DEF Deadlines
<1>6. JustHeard'
  BY <1>1, <1>2, Constants DEF JustHeard
<1>7. Silence'
  <2>1. link.quiet = 0
    BY <1>1 DEF JustHeard
  <2>2. link.quiet + Timeout <= MaxQuiet
    BY <2>1, Constants, Longest
  <2>. QED  BY <1>1, <1>2, <2>2 DEF Silence, AtHand
<1>. QED  BY <1>3, <1>4, <1>5, <1>6, <1>7 DEF HbInv

\* Another frame is queued behind what is there.
LEMMA OtherControlInv == ASSUME HbInv, OtherControl PROVE HbInv'
<1>1. /\ HbTypeOK /\ Single /\ Deadlines /\ JustHeard /\ Silence /\ NoFalseAlarm
      /\ Len(ctl) < QueueSize /\ ctl \in Seq(Request) /\ ctl' = Append(ctl, "other")
      /\ beat' = beat /\ writer' = writer /\ net' = net /\ link' = link
  BY DEF HbInv, HbTypeOK, OtherControl
<1>2. /\ ctl' \in Seq(Request) /\ Len(ctl') = Len(ctl) + 1 /\ ctl'[Len(ctl) + 1] = "other"
      /\ \A i \in 1 .. Len(ctl) : ctl'[i] = ctl[i]
  BY <1>1 DEF Request
<1>3. /\ \A i \in 1 .. Len(ctl') : ctl'[i] = "beat" => i \in 1 .. Len(ctl) /\ ctl[i] = "beat"
      /\ \A i \in 1 .. Len(ctl) : i \in 1 .. Len(ctl')
  BY SMTT(30), <1>1, <1>2, Fields
<1>4. HbTypeOK' /\ NoFalseAlarm'
  BY <1>1, <1>2, Fields, Constants DEF HbTypeOK, NoFalseAlarm
<1>5. Single'
  BY <1>1, <1>2, <1>3 DEF Single, Asked, Total
<1>6. Deadlines' /\ JustHeard'
  BY <1>1 DEF Deadlines, JustHeard
<1>7. Silence'
  BY <1>1, <1>3 DEF Silence, AtHand
<1>. QED  BY <1>4, <1>5, <1>6, <1>7 DEF HbInv

\* What the writer is after it has taken a request.
LEMMA WritingEffect ==
  ASSUME NEW r \in Request, writer' = Writing(r)
  PROVE  /\ writer'.job = r /\ writer'.left = WriteTimeout /\ ~writer'.act
         /\ writer' \in WriterType /\ AtHand' = WriteTimeout
<1>1. writer' \in WriterType /\ writer'.job = r /\ writer'.left = WriteTimeout /\ ~writer'.act
  BY Constants DEF Writing, WriterType
<1>. QED  BY <1>1 DEF AtHand

\* The first of the queue is taken: all the others are one write nearer.
LEMMA TakeControlInv == ASSUME HbInv, TakeControl PROVE HbInv'
<1>1. /\ HbTypeOK /\ Single /\ Deadlines /\ JustHeard /\ Silence /\ NoFalseAlarm
      /\ link.open /\ writer.job = "none" /\ ctl # << >> /\ ctl \in Seq(Request)
      /\ ctl' = Tail(ctl) /\ writer' = Writing(Head(ctl))
      /\ beat' = beat /\ net' = net /\ link' = link
  BY DEF HbInv, HbTypeOK, TakeControl
<1>2. /\ ctl[1] \in Request /\ Head(ctl) = ctl[1] /\ 1 \in 1 .. Len(ctl)
      /\ ctl' \in Seq(Request) /\ Len(ctl') = Len(ctl) - 1
      /\ \A i \in 1 .. Len(ctl') : i + 1 \in 1 .. Len(ctl) /\ ctl'[i] = ctl[i + 1]
  BY <1>1
<1>3. /\ writer'.job = ctl[1] /\ writer'.left = WriteTimeout /\ ~writer'.act
      /\ writer' \in WriterType /\ AtHand' = WriteTimeout
  BY <1>1, <1>2, WritingEffect
<1>4. HbTypeOK' /\ NoFalseAlarm'
  BY <1>1, <1>2, <1>3, Fields, Constants DEF HbTypeOK, NoFalseAlarm
<1>5. Single'
  <2>1. \A i, j \in 1 .. Len(ctl') : ctl'[i] = "beat" /\ ctl'[j] = "beat" => i = j
    <3> SUFFICES ASSUME NEW i \in 1 .. Len(ctl'), NEW j \in 1 .. Len(ctl'),
                        ctl'[i] = "beat", ctl'[j] = "beat"
                 PROVE  i = j
      OBVIOUS
    <3>1. i + 1 = j + 1
      BY <1>1, <1>2 DEF Single
    <3>. QED  BY <3>1
  <2>2. \A i \in 1 .. Len(ctl') : ctl'[i] = "beat" => Asked' /\ writer'.job # "beat"
    <3> SUFFICES ASSUME NEW i \in 1 .. Len(ctl'), ctl'[i] = "beat"
                 PROVE  Asked' /\ writer'.job # "beat"
      OBVIOUS
    <3>1. i + 1 \in 1 .. Len(ctl) /\ ctl[i + 1] = "beat" /\ i + 1 # 1
      BY <1>2
    <3>2. Asked /\ ctl[1] # "beat"
      BY <1>1, <1>2, <3>1 DEF Single
    <3>. QED  BY <1>1, <1>3, <3>2 DEF Asked
  <2>3. writer'.job = "beat" => Asked'
    BY <1>1, <1>2, <1>3 DEF Single, Asked
  <2>4. ASSUME Asked' PROVE writer'.job = "beat" \/ \E i \in 1 .. Len(ctl') : ctl'[i] = "beat"
    <3>1. PICK i \in 1 .. Len(ctl) : ctl[i] = "beat"
      BY <1>1, <2>4 DEF Single, Asked
    <3>2. CASE i = 1
      BY <1>3, <3>1, <3>2
    <3>3. CASE i # 1
      <4>1. i - 1 \in 1 .. Len(ctl') /\ (i - 1) + 1 = i
        BY <1>1, <1>2, <3>3, Fields
      <4>. QED  BY Zenon, <1>2, <3>1, <4>1
    <3>. QED  BY <3>2, <3>3
  <2>5. writer'.job # "off"
    BY <1>2, <1>3 DEF Request
  <2>. QED  BY <1>1, <2>1, <2>2, <2>3, <2>4, <2>5 DEF Single, Total
<1>6. Deadlines'
  <2>1. WriteTimeout + link.past >= WriteTimeout /\ WriteTimeout + link.quiet >= WriteTimeout
    <3>1. link.past \in Nat /\ link.quiet \in Nat
      BY <1>1, Fields
    <3>. QED  BY <3>1, Constants
  <2>. QED  BY <1>1, <1>3, <2>1 DEF Deadlines
<1>7. JustHeard'
  BY <1>1, <1>3 DEF JustHeard
<1>8. Silence'
  <2> SUFFICES ASSUME link.open, link.version = 2 PROVE Silence'
    BY <1>1 DEF Silence
  <2> DEFINE B == Interval + QueueTimeout + Writes(QueueSize + 1)
  <2>1. AtHand = 0 /\ link.quiet \in Nat
    BY <1>1, Fields DEF AtHand, Request
  <2>2. ASSUME writer'.job = "beat" PROVE link.quiet + WriteTimeout <= B
    <3>1. link.quiet + AtHand + Writes(1) <= B
      BY <1>1, <1>2, <1>3, <2>2 DEF Silence
    <3>2. Writes(1) = WriteTimeout
      BY Constants DEF Writes
    <3>. QED  BY <2>1, <3>1, <3>2
  <2>3. ASSUME NEW i \in 1 .. Len(ctl'), ctl'[i] = "beat"
        PROVE  link.quiet + WriteTimeout + Writes(i) <= B
    <3>1. link.quiet + AtHand + Writes(i + 1) <= B
      BY <1>1, <1>2, <2>3 DEF Silence
    <3>2. i \in Nat /\ Writes(i) \in Nat /\ Writes(i + 1) = Writes(i) + WriteTimeout
      BY WritesFacts
    <3>. QED  BY <2>1, <3>1, <3>2, Constants
  <2>4. /\ beat.pc = "tick" => link.quiet + beat.tick <= Interval
        /\ beat.pc = "queue" => link.quiet + beat.left <= Interval + QueueTimeout
        /\ beat.pc = "write" => link.quiet <= B
        /\ beat.pc = "wait" => link.quiet + beat.left <= MaxQuiet
    BY <1>1 DEF Silence
  <2>. QED  BY <1>1, <1>3, <2>2, <2>3, <2>4 DEF Silence
<1>. QED  BY <1>4, <1>5, <1>6, <1>7, <1>8 DEF HbInv

\* Data is taken when the queue is empty, so no heartbeat is behind it.
LEMMA TakeDataInv == ASSUME HbInv, TakeData PROVE HbInv'
<1>1. /\ HbTypeOK /\ Single /\ Deadlines /\ JustHeard /\ Silence /\ NoFalseAlarm
      /\ link.open /\ writer.job = "none" /\ ctl = << >> /\ writer' = Writing("other")
      /\ ctl' = ctl /\ beat' = beat /\ net' = net /\ link' = link /\ "other" \in Request
  BY DEF HbInv, TakeData, Request
<1>2. /\ writer'.job = "other" /\ writer'.left = WriteTimeout /\ ~writer'.act
      /\ writer' \in WriterType
  BY <1>1, WritingEffect
<1>3. \A i : i \notin 1 .. Len(ctl)
  BY <1>1
<1>4. HbTypeOK' /\ NoFalseAlarm'
  BY <1>1, <1>2 DEF HbTypeOK, NoFalseAlarm
<1>5. Single'
  BY <1>1, <1>2, <1>3 DEF Single, Asked, Total
<1>6. Deadlines'
  <2>1. WriteTimeout + link.past >= WriteTimeout /\ WriteTimeout + link.quiet >= WriteTimeout
    <3>1. link.past \in Nat /\ link.quiet \in Nat
      BY <1>1, Fields
    <3>. QED  BY <3>1, Constants
  <2>. QED  BY <1>1, <1>2, <2>1 DEF Deadlines
<1>7. JustHeard' /\ Silence'
  BY <1>1, <1>2, <1>3 DEF JustHeard, Silence
<1>. QED  BY <1>4, <1>5, <1>6, <1>7 DEF HbInv

\* The writer is free again.
LEMMA WriteDoneInv == ASSUME HbInv, WriteDone PROVE HbInv'
<1>1. /\ HbTypeOK /\ Single /\ Deadlines /\ JustHeard /\ Silence /\ NoFalseAlarm
      /\ link.open /\ writer.job \in Request /\ beat \in BeatType
      /\ writer' = [job |-> "none", left |-> 0, act |-> FALSE] /\ ctl' = ctl /\ link' = link
      /\ net \in [out : Nat, held : Nat, back : Nat]
  BY DEF HbInv, HbTypeOK, WriteDone
<1>2. writer'.job = "none" /\ writer' \in WriterType /\ "none" \notin Request /\ AtHand' = 0
  BY <1>1, Constants DEF WriterType, AtHand, Request
<1>3. NoFalseAlarm'
  BY <1>1 DEF NoFalseAlarm
<1>4. CASE writer.job = "beat"
  <2>1. beat' = [beat EXCEPT !.done = TRUE] /\ net' = [net EXCEPT !.out = net.out + 1]
    BY <1>4 DEF WriteDone
  <2>2. /\ beat'.pc = beat.pc /\ beat'.tick = beat.tick /\ beat'.left = beat.left
        /\ beat'.done /\ beat'.resp = beat.resp /\ beat'.act = beat.act /\ beat' \in BeatType
    BY Zenon, <1>1, <2>1 DEF BeatType
  <2>3. net' \in [out : Nat, held : Nat, back : Nat] /\ Total' = Total + 1 /\ Total \in Nat
    BY <1>1, <2>1 DEF Total
  <2>4. /\ beat.pc = "write" /\ ~beat.done /\ ~beat.resp /\ Total # 1 /\ Total <= 1
        /\ \A i \in 1 .. Len(ctl) : ctl[i] # "beat"
    BY <1>1, <1>4 DEF Single, Asked
  <2>5. Total' = 1
    BY <2>3, <2>4
  <2>6. HbTypeOK'
    BY <1>1, <1>2, <2>2, <2>3 DEF HbTypeOK
  <2>7. Single'
    BY <1>1, <1>2, <2>2, <2>4, <2>5 DEF Single, Asked
  <2>8. Deadlines' /\ JustHeard'
    BY <1>1, <1>2, <2>2, <2>4 DEF Deadlines, JustHeard
  <2>9. Silence'
    BY <1>1, <1>2, <2>2, <2>4 DEF Silence
  <2>. QED  BY <1>3, <2>6, <2>7, <2>8, <2>9 DEF HbInv
<1>5. CASE writer.job # "beat"
  <2>1. beat' = beat /\ net' = net
    BY <1>5 DEF WriteDone
  <2>2. HbTypeOK'
    BY <1>1, <1>2, <2>1 DEF HbTypeOK
  <2>3. Single'
    BY <1>1, <1>2, <1>5, <2>1 DEF Single, Asked, Total
  <2>4. Deadlines' /\ JustHeard'
    BY <1>1, <1>2, <2>1 DEF Deadlines, JustHeard
  <2>5. Silence'
    <3> SUFFICES ASSUME link.version = 2 PROVE Silence'
      BY <1>1 DEF Silence
    <3> DEFINE B == Interval + QueueTimeout + Writes(QueueSize + 1)
    <3>1. ASSUME NEW i \in 1 .. Len(ctl), ctl[i] = "beat"
          PROVE  link.quiet + 0 + Writes(i) <= B
      <4>1. link.quiet + writer.left + Writes(i) <= B
        <5>1. AtHand = writer.left
          BY <1>1 DEF AtHand
        <5>2. link.quiet + AtHand + Writes(i) <= B
          BY <1>1, <3>1 DEF Silence
        <5>. QED  BY <5>1, <5>2
      <4>2. link.quiet \in Nat /\ writer.left \in Nat
        BY <1>1, Fields
      <4>3. i \in Nat /\ Writes(i) \in Nat
        BY WritesFacts
      <4>4. B \in Nat
        BY SMTT(30), Constants, Longest
      <4>. QED  BY <4>1, <4>2, <4>3, <4>4
    <3>2. /\ beat.pc = "tick" => link.quiet + beat.tick <= Interval
          /\ beat.pc = "queue" => link.quiet + beat.left <= Interval + QueueTimeout
          /\ beat.pc = "write" => link.quiet <= B
          /\ beat.pc = "wait" => link.quiet + beat.left <= MaxQuiet
      BY <1>1 DEF Silence
    <3>. QED  BY <1>1, <1>2, <2>1, <3>1, <3>2 DEF Silence
  <2>. QED  BY <1>3, <2>2, <2>3, <2>4, <2>5 DEF HbInv
<1>. QED  BY <1>4, <1>5

\* Who has just heard something has all the time there is.
LEMMA HeardSilence ==
  ASSUME HbTypeOK', JustHeard', link'.quiet = 0
  PROVE  Silence'
<1> SUFFICES ASSUME link'.open PROVE Silence'
  BY DEF Silence
<1>. DEFINE B == Interval + QueueTimeout + Writes(QueueSize + 1)
<1>1. /\ beat'.tick \in Nat /\ beat'.left \in Nat /\ beat'.tick <= Interval
      /\ writer'.left \in Nat /\ writer'.left <= WriteTimeout
  BY Constants DEF HbTypeOK, BeatType, WriterType
<1>2. /\ beat'.pc = "queue" => beat'.left <= QueueTimeout
      /\ beat'.pc = "wait" => beat'.left <= Timeout
  BY DEF JustHeard
<1>3. 0 \in Nat /\ AtHand' \in Nat /\ AtHand' <= WriteTimeout
  BY <1>1, Constants DEF AtHand
<1>4. ASSUME NEW i \in 1 .. Len(ctl') PROVE 0 + AtHand' + Writes(i) <= B
  <2>1. i \in Nat /\ i <= QueueSize
    BY Constants DEF HbTypeOK
  <2>2. Writes(i) \in Nat /\ Writes(i) <= Writes(QueueSize)
    BY <2>1, WritesFacts, Constants
  <2>3. 0 <= Interval + QueueTimeout
    BY Constants
  <2>. QED  BY <1>3, <2>2, <2>3, Sums
<1>5. 0 + beat'.tick <= Interval /\ 0 <= B /\ 0 + writer'.left <= B
  BY <1>1, Constants, Longest
<1>6. beat'.pc = "queue" => 0 + beat'.left <= Interval + QueueTimeout
  BY <1>1, <1>2, Constants
<1>7. beat'.pc = "wait" => 0 + beat'.left <= MaxQuiet
  BY <1>1, <1>2, Constants, Longest
<1>. QED  BY <1>4, <1>5, <1>6, <1>7 DEF Silence

\* A frame has come, and the write gets all its time again.
LEMMA WriteActivityInv == ASSUME HbInv, WriteActivity PROVE HbInv'
<1>1. /\ HbTypeOK /\ Single /\ Deadlines /\ JustHeard /\ Silence /\ NoFalseAlarm
      /\ link.open /\ writer.job \in Request /\ writer.act /\ writer \in WriterType
      /\ writer' = [writer EXCEPT !.left = WriteTimeout, !.act = FALSE]
      /\ ctl' = ctl /\ beat' = beat /\ net' = net /\ link' = link
  BY DEF HbInv, HbTypeOK, WriteActivity
<1>2. /\ writer'.job = writer.job /\ writer'.left = WriteTimeout /\ ~writer'.act
      /\ writer' \in WriterType
  <2>1. WriteTimeout \in 0 .. WriteTimeout
    BY Constants
  <2>. QED  BY Zenon, <1>1, <2>1 DEF WriterType
<1>3. HbTypeOK'
  BY <1>1, <1>2 DEF HbTypeOK
<1>4. Single' /\ NoFalseAlarm'
  <2>1. NoFalseAlarm'
    BY <1>1 DEF NoFalseAlarm
  <2>2. Single'
    BY <1>1, <1>2 DEF Single, Asked, Total
  <2>. QED  BY <2>1, <2>2
<1>5. Deadlines'
  <2>1. WriteTimeout + link.past >= WriteTimeout /\ WriteTimeout + link.quiet >= WriteTimeout
    <3>1. link.past \in Nat /\ link.quiet \in Nat
      BY <1>1, Fields
    <3>. QED  BY <3>1, Constants
  <2>. QED  BY <1>1, <1>2, <2>1 DEF Deadlines
<1>6. JustHeard' /\ link'.quiet = 0
  BY <1>1, <1>2 DEF JustHeard
<1>. QED  BY <1>3, <1>4, <1>5, <1>6, HeardSilence DEF HbInv

\* What inbound_activity does to the waiting tasks.
LEMMA NoticedEffect ==
  ASSUME HbTypeOK, Noticed
  PROVE  /\ writer'.job = writer.job /\ writer'.left = writer.left /\ writer' \in WriterType
         /\ writer.job \in Request => writer'.act
<1>1. /\ writer \in WriterType
      /\ writer' = [writer EXCEPT !.act = writer.act \/ writer.job \in Request]
  BY DEF HbTypeOK, Noticed
<1>2. (writer.act \/ writer.job \in Request) \in BOOLEAN
  OBVIOUS
<1>. QED  BY Zenon, <1>1, <1>2 DEF WriterType

\* The same for the heartbeat task.
LEMMA HeardEffect ==
  ASSUME NEW b \in BeatType
  PROVE  LET h == Heard(b) IN
         /\ h.pc = b.pc /\ h.tick = b.tick /\ h.left = b.left /\ h.done = b.done
         /\ h.resp = b.resp /\ h \in BeatType /\ (b.pc = "wait" => h.act)
<1> DEFINE v == b.act \/ b.pc = "wait"
<1>1. v \in BOOLEAN /\ Heard(b) = [b EXCEPT !.act = v]
  BY DEF Heard
<1> HIDE DEF v
<1>2. /\ [b EXCEPT !.act = v].pc = b.pc /\ [b EXCEPT !.act = v].tick = b.tick
      /\ [b EXCEPT !.act = v].left = b.left /\ [b EXCEPT !.act = v].done = b.done
      /\ [b EXCEPT !.act = v].resp = b.resp /\ [b EXCEPT !.act = v] \in BeatType
      /\ [b EXCEPT !.act = v].act = v
  BY <1>1 DEF BeatType
<1>3. b.pc = "wait" => v
  BY DEF v
<1>. QED  BY <1>1, <1>2, <1>3

\* A frame that says nothing to the tasks still shows that the peer is alive.
LEMMA ReceiveOtherInv == ASSUME HbInv, ReceiveOther PROVE HbInv'
<1>1. /\ HbTypeOK /\ Single /\ Deadlines /\ JustHeard /\ NoFalseAlarm
      /\ link.open /\ beat \in BeatType /\ link \in LinkType /\ beat' = Heard(beat) /\ Noticed
      /\ ctl' = ctl /\ net' = net
  BY DEF HbInv, HbTypeOK, ReceiveOther
<1>2. /\ beat'.pc = beat.pc /\ beat'.tick = beat.tick /\ beat'.left = beat.left
      /\ beat'.done = beat.done /\ beat'.resp = beat.resp /\ beat' \in BeatType
      /\ beat.pc = "wait" => beat'.act
  BY <1>1, HeardEffect
<1>3. /\ writer'.job = writer.job /\ writer'.left = writer.left /\ writer' \in WriterType
      /\ writer.job \in Request => writer'.act
  BY <1>1, NoticedEffect
<1>4. PICK v \in {link.version, 2} : link' = [link EXCEPT !.quiet = 0, !.version = v]
  BY Zenon DEF ReceiveOther
<1>5. /\ link'.open /\ link'.cause = link.cause /\ link'.quiet = 0 /\ link'.past = link.past
      /\ link'.answered = link.answered /\ link' \in LinkType
  <2>1. 0 \in 0 .. MaxQuiet + 1
    BY Longest
  <2>2. v \in {0, 2}
    BY <1>1 DEF LinkType
  <2>. QED  BY Zenon, <1>1, <1>4, <2>1, <2>2 DEF LinkType
<1>6. HbTypeOK'
  BY <1>1, <1>2, <1>3, <1>5 DEF HbTypeOK
<1>7. Single'
  BY <1>1, <1>2, <1>3, <1>5 DEF Single, Asked, Total
<1>8. Deadlines' /\ NoFalseAlarm'
  BY <1>1, <1>2, <1>3, <1>5 DEF Deadlines, NoFalseAlarm
<1>9. JustHeard'
  BY <1>1, <1>2, <1>5 DEF JustHeard
<1>. QED  BY <1>5, <1>6, <1>7, <1>8, <1>9, HeardSilence DEF HbInv

\* The answer comes, be it before or after the task has learnt that its request is written.
LEMMA ReceiveResponseInv == ASSUME HbInv, ReceiveResponse PROVE HbInv'
<1> DEFINE b == [beat EXCEPT !.resp = beat.resp \/ beat.pc \in {"queue", "write", "wait"}]
           a == link.answered \/ ~(beat.pc = "wait" /\ beat.left = 0)
<1>1. /\ HbTypeOK /\ Single /\ Deadlines /\ JustHeard /\ NoFalseAlarm
      /\ link.open /\ beat \in BeatType /\ link \in LinkType /\ beat' = Heard(b) /\ Noticed
      /\ ctl' = ctl /\ net.back > 0 /\ net' = [net EXCEPT !.back = net.back - 1]
      /\ net \in [out : Nat, held : Nat, back : Nat]
      /\ link' = [link EXCEPT !.quiet = 0, !.answered = a]
  BY DEF HbInv, HbTypeOK, ReceiveResponse
<1>2. /\ net'.out = net.out /\ net'.held = net.held /\ net'.back = net.back - 1
      /\ net' \in [out : Nat, held : Nat, back : Nat]
  <2>1. net.back - 1 \in Nat
    BY <1>1
  <2>. QED  BY <1>1, <2>1
<1>3. Total = 1 /\ Total' = 0
  <2>1. Total >= 1 /\ Total \in Nat /\ Total' = Total - 1
    BY <1>1, <1>2 DEF Total
  <2>2. Total <= 1
    BY <1>1 DEF Single
  <2>. QED  BY <2>1, <2>2
<1>4. beat.done /\ beat.pc \in {"write", "wait"}
  BY <1>1, <1>3 DEF Single
<1>5. /\ b.pc = beat.pc /\ b.tick = beat.tick /\ b.left = beat.left /\ b.done = beat.done
      /\ b.resp /\ b \in BeatType
  <2>1. b = [beat EXCEPT !.resp = TRUE]
    BY Zenon, <1>4
  <2>. QED  BY Zenon, <1>1, <2>1 DEF BeatType
<1> HIDE DEF b
<1>6. /\ beat'.pc = beat.pc /\ beat'.tick = beat.tick /\ beat'.left = beat.left
      /\ beat'.done /\ beat'.resp /\ beat' \in BeatType /\ (beat.pc = "wait" => beat'.act)
  BY Zenon, <1>1, <1>4, <1>5, HeardEffect
<1>7. /\ writer'.job = writer.job /\ writer'.left = writer.left /\ writer' \in WriterType
      /\ writer.job \in Request => writer'.act
  BY <1>1, NoticedEffect
<1>8. a \in BOOLEAN
  OBVIOUS
<1>9. a /\ beat.pc = "wait" => beat.left > 0
  BY <1>1, Fields DEF Deadlines
<1> HIDE DEF a
<1>10. /\ link'.open /\ link'.cause = link.cause /\ link'.quiet = 0 /\ link'.past = link.past
       /\ link'.answered = a /\ link' \in LinkType
  <2>1. 0 \in 0 .. MaxQuiet + 1
    BY Longest
  <2>. QED  BY Zenon, <1>1, <1>8, <2>1 DEF LinkType
<1>11. HbTypeOK'
  BY <1>1, <1>2, <1>6, <1>7, <1>10 DEF HbTypeOK
<1>12. Single'
  BY <1>1, <1>3, <1>4, <1>6, <1>7 DEF Single, Asked
<1>13. Deadlines' /\ NoFalseAlarm'
  BY <1>1, <1>6, <1>7, <1>9, <1>10 DEF Deadlines, NoFalseAlarm
<1>14. JustHeard'
  BY <1>1, <1>6, <1>10 DEF JustHeard
<1>. QED  BY <1>10, <1>11, <1>12, <1>13, <1>14, HeardSilence DEF HbInv

\* Time passes only when no task is ready: every clock that runs has time left, and nothing
\* heard is still to be noticed.
LEMMA ElapseInv == ASSUME HbInv, Elapse PROVE HbInv'
<1>1. /\ HbTypeOK /\ Single /\ Deadlines /\ JustHeard /\ Silence /\ NoFalseAlarm
      /\ beat \in BeatType /\ link \in LinkType /\ writer \in WriterType
      /\ ctl' = ctl /\ net' = net
      /\ beat' = [beat EXCEPT !.tick = Less(beat.tick), !.left = Less(beat.left)]
      /\ writer' = [writer EXCEPT !.left = Less(writer.left)]
      /\ link' = [link EXCEPT !.quiet = Quieter, !.past = Quieter]
  BY DEF HbInv, HbTypeOK, Elapse
<1>2. /\ link.open
      /\ beat.pc = "tick" => beat.tick # 0
      /\ beat.pc = "queue" => beat.left # 0
      /\ beat.pc = "write" => ~beat.done
      /\ beat.pc = "wait" => beat.left # 0 /\ ~beat.resp /\ ~beat.act
      /\ writer.job = "none" => ctl = << >>
      /\ writer.job \in Request => writer.left # 0 /\ ~writer.act
  BY DEF Elapse, Ready
<1>3. /\ beat.tick \in Nat /\ beat.left \in Nat /\ writer.left \in Nat
      /\ beat.tick <= Interval /\ writer.left <= WriteTimeout
      /\ link.quiet \in Nat /\ link.past \in Nat
  BY <1>1, Fields
<1>4. \A n \in Nat : Less(n) \in Nat /\ Less(n) <= n /\ (n # 0 => Less(n) = n - 1)
  BY DEF Less
<1>5. /\ Quieter \in Nat /\ Quieter >= link.quiet
      /\ Quieter = link.quiet + 1 \/ Quieter > MaxQuiet
      /\ link.quiet <= MaxQuiet => Quieter = link.quiet + 1
  BY <1>3, Longest DEF Quieter
<1>6. /\ beat'.pc = beat.pc /\ beat'.tick = Less(beat.tick) /\ beat'.left = Less(beat.left)
      /\ beat'.done = beat.done /\ beat'.resp = beat.resp /\ beat'.act = beat.act
      /\ beat' \in BeatType
  <2>1. Less(beat.tick) \in 0 .. Interval /\ Less(beat.left) \in Nat
    BY <1>3, <1>4, Constants
  <2>. QED  BY Zenon, <1>1, <2>1 DEF BeatType
<1>7. /\ writer'.job = writer.job /\ writer'.left = Less(writer.left)
      /\ writer'.act = writer.act /\ writer' \in WriterType
  <2>1. Less(writer.left) \in 0 .. WriteTimeout
    BY <1>3, <1>4, Constants
  <2>. QED  BY <1>1, <2>1 DEF WriterType
<1>8. /\ link'.open = link.open /\ link'.cause = link.cause /\ link'.quiet = Quieter
      /\ link'.past = Quieter /\ link'.answered = link.answered
      /\ link'.version = link.version /\ link' \in LinkType
  <2>1. Quieter \in 0 .. MaxQuiet + 1
    <3>1. link.quiet <= MaxQuiet + 1
      BY <1>1, Longest DEF LinkType
    <3>. QED  BY <1>3, <3>1, Longest DEF Quieter
  <2>. QED  BY Zenon, <1>1, <2>1 DEF LinkType
<1>9. HbTypeOK'
  BY <1>1, <1>6, <1>7, <1>8 DEF HbTypeOK
<1>10. Single'
  BY <1>1, <1>6, <1>7, <1>8 DEF Single, Asked, Total
<1>11. ~beat.resp \/ beat.pc = "tick"
  BY <1>1, <1>2 DEF Single, HbTypeOK, BeatType
<1>12. Deadlines' /\ NoFalseAlarm'
  <2>1. beat.pc = "wait" => Less(beat.left) + Quieter >= Timeout /\ ~link.answered
    <3> SUFFICES ASSUME beat.pc = "wait"
                 PROVE  Less(beat.left) + Quieter >= Timeout /\ ~link.answered
      OBVIOUS
    <3>1. beat.left + link.quiet >= Timeout /\ ~link.answered
      BY <1>1, <1>2 DEF Deadlines
    <3>2. Less(beat.left) = beat.left - 1 /\ Less(beat.left) \in Nat
      BY Zenon, <1>2, <1>3, <1>4
    <3>. QED  BY <1>3, <1>5, <3>1, <3>2, Constants, Longest
  <2>2. writer.job \in Request => Less(writer.left) + Quieter >= WriteTimeout
    <3> SUFFICES ASSUME writer.job \in Request PROVE Less(writer.left) + Quieter >= WriteTimeout
      OBVIOUS
    <3>1. writer.left + link.quiet >= WriteTimeout
      BY <1>1, <1>2 DEF Deadlines
    <3>2. Less(writer.left) = writer.left - 1 /\ Less(writer.left) \in Nat
      BY Zenon, <1>2, <1>3, <1>4
    <3>. QED  BY <1>3, <1>5, <3>1, <3>2, Constants, Longest
  <2>3. Deadlines'
    BY <1>1, <1>2, <1>6, <1>7, <1>8, <2>1, <2>2 DEF Deadlines
  <2>4. NoFalseAlarm'
    BY <1>1, <1>2, <1>8 DEF Deadlines, NoFalseAlarm
  <2>. QED  BY <2>3, <2>4
<1>13. JustHeard'
  <2>1. /\ beat.pc = "queue" => Less(beat.left) <= QueueTimeout
        /\ beat.pc = "wait" => Less(beat.left) <= Timeout
    BY SMTT(30), <1>1, <1>2, <1>3, <1>4, Constants DEF JustHeard
  <2>. QED  BY <1>1, <1>2, <1>6, <1>7, <1>8, <1>11, <2>1 DEF JustHeard
<1>14. Silence'
  <2> SUFFICES ASSUME link.version = 2 PROVE Silence'
    BY <1>8 DEF Silence
  <2> DEFINE B == Interval + QueueTimeout + Writes(QueueSize + 1)
  <2>bound. B \in Nat /\ MaxQuiet = B + Timeout /\ Interval <= B /\ Interval + QueueTimeout <= B
    BY Constants, Longest
  <2> HIDE DEF B
  <2>. DEFINE Passes(n, w, m) == link.quiet + n + w <= m => Quieter + Less(n) + w <= m
  <2>pass. ASSUME NEW n \in Nat, NEW w \in Nat, NEW m \in Nat, n # 0, m <= MaxQuiet
        PROVE  Passes(n, w, m)
    <3> SUFFICES ASSUME link.quiet + n + w <= m PROVE Quieter + Less(n) + w <= m
      OBVIOUS
    <3>1. Less(n) = n - 1
      BY <1>4, <2>pass
    <3>2. link.quiet <= MaxQuiet
      BY <1>3, <2>pass, Longest
    <3>3. Quieter = link.quiet + 1
      BY <1>5, <3>2
    <3>. QED  BY <1>3, <3>1, <3>3
  <2>sizes. /\ 0 \in Nat /\ Interval \in Nat /\ Interval + QueueTimeout \in Nat /\ MaxQuiet \in Nat
        /\ Interval <= MaxQuiet /\ Interval + QueueTimeout <= MaxQuiet
        /\ B <= MaxQuiet /\ MaxQuiet <= MaxQuiet
    BY <2>bound, Constants
  <2>1. ASSUME beat.pc = "tick" PROVE Quieter + Less(beat.tick) <= Interval
    <3>1. link.quiet + beat.tick <= Interval /\ beat.tick # 0
      BY <1>1, <1>2, <2>1 DEF Silence
    <3>2. Passes(beat.tick, 0, Interval)
      BY <1>3, <2>pass, <2>sizes, <3>1
    <3>. QED  BY <1>3, <1>4, <1>5, <3>1, <3>2
  <2>2. ASSUME beat.pc = "queue" PROVE Quieter + Less(beat.left) <= Interval + QueueTimeout
    <3>1. link.quiet + beat.left <= Interval + QueueTimeout /\ beat.left # 0
      BY <1>1, <1>2, <2>2 DEF Silence
    <3>2. Passes(beat.left, 0, Interval + QueueTimeout)
      BY <1>3, <2>pass, <2>sizes, <3>1
    <3>. QED  BY <1>3, <1>4, <1>5, <3>1, <3>2
  <2>3. ASSUME beat.pc = "wait" PROVE Quieter + Less(beat.left) <= MaxQuiet
    <3>1. link.quiet + beat.left <= MaxQuiet /\ beat.left # 0
      BY <1>1, <1>2, <2>3 DEF Silence
    <3>2. Passes(beat.left, 0, MaxQuiet)
      BY <1>3, <2>pass, <2>sizes, <3>1
    <3>. QED  BY <1>3, <1>4, <1>5, <3>1, <3>2
  <2>4. ASSUME writer.job = "beat" PROVE Quieter + Less(writer.left) <= B
    <3>1. link.quiet + writer.left <= B /\ writer.left # 0
      BY <1>1, <1>2, <2>4 DEF Silence, B, Request
    <3>2. Passes(writer.left, 0, B)
      BY <1>3, <2>bound, <2>pass, <2>sizes, <3>1
    <3>. QED  BY <1>3, <1>4, <1>5, <3>1, <3>2
  <2>5. ASSUME NEW i \in 1 .. Len(ctl), ctl[i] = "beat"
        PROVE  Quieter + AtHand' + Writes(i) <= B
    <3>1. writer.job \in Request /\ writer.left # 0
      <4>1. writer.job # "none"
        BY <1>1, <1>2, <2>5
      <4>2. writer.job # "off"
        BY <1>1, <1>2 DEF Single
      <4>. QED  BY <1>1, <1>2, <4>1, <4>2 DEF WriterType
    <3>2. AtHand = writer.left /\ AtHand' = Less(writer.left)
      BY <1>7, <3>1 DEF AtHand
    <3>3. link.quiet + AtHand + Writes(i) <= B
      BY <1>1, <1>2, <2>5 DEF Silence, B
    <3>4. Writes(i) \in Nat
      BY WritesFacts
    <3>5. Passes(writer.left, Writes(i), B)
      BY SMTT(30), <1>3, <2>bound, <2>pass, <2>sizes, <3>1, <3>4
    <3>. QED  BY <3>2, <3>3, <3>5
  <2>6. ASSUME beat.pc = "write" PROVE Quieter <= B
    <3>1. writer.job = "beat" \/ \E i \in 1 .. Len(ctl) : ctl[i] = "beat"
      BY <1>1, <1>2, <2>6 DEF Single, Asked
    <3>2. CASE writer.job = "beat"
      <4>1. Less(writer.left) \in Nat /\ Quieter + Less(writer.left) <= B
        BY <1>3, <1>4, <2>4, <3>2
      <4>. QED  BY <1>5, <2>bound, <4>1
    <3>3. CASE \E i \in 1 .. Len(ctl) : ctl[i] = "beat"
      <4>1. PICK i \in 1 .. Len(ctl) : ctl[i] = "beat"
        BY <3>3
      <4>2. Quieter + AtHand' + Writes(i) <= B
        BY <2>5, <4>1
      <4>3. AtHand' \in Nat
        BY SMTT(30), <1>3, <1>4, <1>7 DEF AtHand
      <4>4. Writes(i) \in Nat
        BY WritesFacts
      <4>. QED  BY <1>5, <2>bound, <4>2, <4>3, <4>4
    <3>. QED  BY <3>1, <3>2, <3>3
  <2>. QED  BY <1>1, <1>6, <1>7, <1>8, <2>1, <2>2, <2>3, <2>4, <2>5, <2>6 DEF Silence, B
<1>. QED  BY <1>9, <1>10, <1>12, <1>13, <1>14 DEF HbInv

\* Every step keeps the invariant.
LEMMA HbNextInv == HbInv /\ [HbNext]_hbVars => HbInv'
<1> SUFFICES ASSUME HbInv, [HbNext]_hbVars PROVE HbInv'
  OBVIOUS
<1>1. CASE BeatStep
  BY <1>1, TickInv, AdmitInv, AdmitLateInv, AwaitInv, AnsweredInv, ActivityInv, AnswerLateInv,
     EndsInv DEF BeatStep
<1>2. CASE WriterStep
  BY <1>2, OtherControlInv, TakeControlInv, TakeDataInv, WriteDoneInv, WriteActivityInv,
     WriteFailsInv, EndsInv DEF WriterStep
<1>3. CASE NetStep
  BY <1>3, PeerInv, ReceiveResponseInv, ReceiveOtherInv, ReceiveEndsInv DEF NetStep
<1>4. CASE Elapse
  BY <1>4, ElapseInv
<1>5. CASE UNCHANGED hbVars
  <2>1. beat' = beat /\ ctl' = ctl /\ writer' = writer /\ net' = net /\ link' = link
    BY <1>5 DEF hbVars
  <2>2. HbTypeOK' /\ Single' /\ NoFalseAlarm'
    BY SMTT(30), <2>1 DEF HbInv, HbTypeOK, Single, Asked, Total, NoFalseAlarm
  <2>3. Deadlines' /\ JustHeard' /\ Silence'
    BY <2>1 DEF HbInv, Deadlines, JustHeard, Silence, AtHand
  <2>. QED  BY <2>2, <2>3 DEF HbInv
<1>. QED  BY <1>1, <1>2, <1>3, <1>4, <1>5 DEF HbNext

\* The invariant holds always.
LEMMA HbSafety == HbSpec => []HbInv
BY HbInitInv, HbNextInv, PTL DEF HbSpec

\* The clocks and flags of do_heartbeat_task and background_task stay in range, and the
\* control queue keeps to its size.
THEOREM HbTypeCorrect == HbSpec => []HbTypeOK
<1>1. HbInv => HbTypeOK
  BY DEF HbInv
<1>. QED  BY <1>1, HbSafety, PTL

\* do_heartbeat_task and background_task close a session for a missing answer or a late
\* write only when nothing was heard for as long, whatever the lengths of the intervals.
THEOREM NoFalseAlarmHolds == HbSpec => []NoFalseAlarm
<1>1. HbInv => NoFalseAlarm
  BY DEF HbInv
<1>. QED  BY <1>1, HbSafety, PTL

\* do_heartbeat_task has one heartbeat out at a time, and knows of it.
THEOREM OneHeartbeatHolds == HbSpec => []OneHeartbeat
<1>1. HbInv => OneHeartbeat
  BY DEF HbInv, Single, Total, OneHeartbeat
<1>. QED  BY <1>1, HbSafety, PTL

\* A session whose peer has fallen silent is closed within MaxQuiet: the tick, the place in
\* the queue, the writes before the heartbeat's, its own and the answer have each a limit.
THEOREM StalledIsClosedHolds == HbSpec => []StalledIsClosed
<1>1. HbInv => StalledIsClosed
  <2> SUFFICES ASSUME HbInv, link.open, link.version = 2 PROVE link.quiet <= MaxQuiet
    BY DEF StalledIsClosed
  <2>1. /\ link.quiet \in Nat /\ beat.tick \in Nat /\ beat.left \in Nat
        /\ beat.pc \in {"tick", "queue", "write", "wait"}
    BY Fields DEF HbInv, HbTypeOK, BeatType, Single
  <2>2. \/ link.quiet + beat.tick <= Interval
        \/ link.quiet + beat.left <= Interval + QueueTimeout
        \/ link.quiet <= Interval + QueueTimeout + Writes(QueueSize + 1)
        \/ link.quiet + beat.left <= MaxQuiet
    BY <2>1 DEF HbInv, Silence
  <2>. QED  BY <2>1, <2>2, Constants, Longest
<1>. QED  BY <1>1, HbSafety, PTL

-----------------------------------------------------------------------------
(* The client application.                                                 *)

\* What a connection task is at any time: it has a stream from create_stream to the end of
\* what it relays, and its verdict is that of the whole request.
Cell(k) ==
  /\ k \in ConnType
  /\ k.stream <=> k.pc \in {"write", "reply", "relay", "udp"}
  /\ k.here <= Len(k.req)
  /\ k.pc = "none" => k.here = 0 /\ k.proto = "none"
  /\ k.proto \in {"none", "late", Protocol(k.req)}

\* The inductive invariant: a call of run has told nobody before it listens, and has no
\* connection before it accepts.
AppInv ==
  /\ AppTypeOK /\ OneClient
  /\ \A r \in Runs :
       /\ run[r].pc \in {"idle", "built", "start"} => run[r].told = 0
       /\ run[r].pc \in {"start", "setup"} => Ended(r)
       /\ \A c \in Conns : Cell(conn[r][c])

\* The first n letters of a request.
LEMMA PrefixFacts ==
  ASSUME NEW S, NEW q \in Seq(S), NEW n \in 0 .. Len(q)
  PROVE  /\ Prefix(q, n) \in Seq(S) /\ Len(Prefix(q, n)) = n
         /\ \A i \in 1 .. n : Prefix(q, n)[i] = q[i]
BY DEF Prefix

\* Two sequences of a length with the same letters are one.
LEMMA SameLetters ==
  ASSUME NEW S, NEW p \in Seq(S), NEW q \in Seq(S), Len(p) = Len(q),
         \A i \in 1 .. Len(p) : p[i] = q[i]
  PROVE  p = q
OBVIOUS

\* What has arrived of a request begins as it does.
LEMMA PrefixOfPrefix ==
  ASSUME NEW S, NEW q \in Seq(S), NEW n \in 0 .. Len(q), NEW k \in 0 .. n
  PROVE  Prefix(Prefix(q, n), k) = Prefix(q, k)
<1>1. /\ Prefix(q, n) \in Seq(S) /\ Len(Prefix(q, n)) = n /\ k \in 0 .. Len(q)
      /\ \A i \in 1 .. n : Prefix(q, n)[i] = q[i]
  BY PrefixFacts
<1>2. /\ Prefix(q, k) \in Seq(S) /\ Len(Prefix(q, k)) = k
      /\ \A i \in 1 .. k : Prefix(q, k)[i] = q[i]
  BY <1>1, PrefixFacts
<1> DEFINE p == Prefix(q, n)
<1> HIDE DEF p
<1>3. /\ Prefix(p, k) \in Seq(S) /\ Len(Prefix(p, k)) = k
      /\ \A i \in 1 .. k : Prefix(p, k)[i] = p[i]
  BY <1>1, PrefixFacts DEF p
<1>4. \A i \in 1 .. k : Prefix(p, k)[i] = Prefix(q, k)[i]
  BY <1>1, <1>2, <1>3 DEF p
<1> QED  BY <1>2, <1>3, <1>4, SameLetters DEF p

\* detect_listener_protocol asks for more, or decides as it would on the whole request.
LEMMA VerdictIsProtocol ==
  ASSUME NEW S, NEW q \in Seq(S), Methods \subseteq Seq(S), NEW n \in 1 .. Len(q),
         Verdict(Prefix(q, n)) # "none"
  PROVE  Verdict(Prefix(q, n)) = Protocol(q)
<1> DEFINE b == Prefix(q, n)
<1>1. /\ b \in Seq(S) /\ Len(b) = n /\ \A i \in 1 .. n : b[i] = q[i]
  BY PrefixFacts
<1>2. \A k \in 0 .. n : Prefix(b, k) = Prefix(q, k)
  BY PrefixOfPrefix
<1> HIDE DEF b
<1>3. b[1] = q[1]
  BY <1>1
<1>4. ASSUME IsHttpRequest(b) PROVE IsHttpRequest(q)
  <2>1. PICK m \in Methods : Len(b) > Len(m) /\ Prefix(b, Len(m)) = m /\ b[Len(m) + 1] = " "
    BY <1>4 DEF IsHttpRequest
  <2>2. m \in Seq(S)
    OBVIOUS
  <2>3. Len(m) \in Nat
    BY <2>2
  <2>4. Len(m) < n
    BY Zenon, <1>1, <2>1
  <2>5. Len(m) \in Nat /\ Len(m) \in 0 .. n /\ Len(m) + 1 \in 1 .. n /\ Len(q) > Len(m)
    BY <2>3, <2>4
  <2>6. Prefix(q, Len(m)) = m /\ q[Len(m) + 1] = " "
    BY <1>1, <1>2, <2>1, <2>5
  <2> QED  BY <2>5, <2>6 DEF IsHttpRequest
<1>5. ASSUME IsHttpRequest(q) PROVE IsHttpRequest(b) \/ CouldBePrefix(b)
  <2>1. PICK m \in Methods : Len(q) > Len(m) /\ Prefix(q, Len(m)) = m /\ q[Len(m) + 1] = " "
    BY <1>5 DEF IsHttpRequest
  <2>2. m \in Seq(S)
    OBVIOUS
  <2>3. m \in Seq(S) /\ Len(m) \in Nat
    BY <2>2
  <2>4. CASE n <= Len(m)
    <3>1. Prefix(m, n) = Prefix(q, n)
      <4>1. Len(m) < Len(q)
        BY Zenon, <2>1
      <4>2. Len(m) \in 0 .. Len(q) /\ n \in 0 .. Len(m)
        BY <2>3, <2>4, <4>1
      <4> QED  BY <2>1, <4>2, PrefixOfPrefix
    <3>2. Prefix(b, n) = Prefix(m, n)
      BY <1>2, <3>1
    <3> QED  BY <1>1, <2>4, <3>2 DEF CouldBePrefix
  <2>5. CASE n > Len(m)
    <3>1. Len(m) \in 0 .. n /\ Len(m) + 1 \in 1 .. n
      BY <2>3, <2>5
    <3>2. Prefix(b, Len(m)) = m /\ b[Len(m) + 1] = " "
      BY <1>1, <1>2, <2>1, <3>1
    <3> QED  BY <1>1, <2>5, <3>2 DEF IsHttpRequest
  <2> QED  BY <2>3, <2>4, <2>5
<1> QED  BY <1>3, <1>4, <1>5 DEF Verdict, Protocol, b

\* One call of run changes, and perhaps whose the token is.
LEMMA RunChange ==
  ASSUME AppInv, NEW r \in Runs, NEW q \in RunType, run' = [run EXCEPT ![r] = q],
         UNCHANGED conn, token' \in Runs \cup {None},
         token' = r <=> q.pc \in Inside \cup {"returned"},
         \A u \in Runs \ {r} : token' = u <=> token = u,
         q.bound \/ ~Ended(r) => q.pc \in Inside,
         q.pc \in {"idle", "built", "start"} => q.told = 0,
         q.pc \in {"start", "setup"} => Ended(r)
  PROVE  AppInv'
<1>1. /\ run' \in [Runs -> RunType] /\ run'[r] = q /\ \A u \in Runs \ {r} : run'[u] = run[u]
  BY DEF AppInv, AppTypeOK
<1>2. \A u \in Runs : Ended(u)' <=> Ended(u)
  BY DEF Ended
<1>3. AppTypeOK'
  BY <1>1 DEF AppInv, AppTypeOK
<1>4. OneClient'
  BY <1>1, <1>2 DEF AppInv, OneClient
<1>5. ASSUME NEW u \in Runs
      PROVE  /\ run'[u].pc \in {"idle", "built", "start"} => run'[u].told = 0
             /\ run'[u].pc \in {"start", "setup"} => Ended(u)'
             /\ \A c \in Conns : Cell(conn'[u][c])
  BY <1>1, <1>2 DEF AppInv
<1> QED  BY <1>3, <1>4, <1>5 DEF AppInv

\* One connection task changes, which runs only inside run_client.
LEMMA ConnChange ==
  ASSUME AppInv, NEW r \in Runs, NEW c \in Conns, NEW k, Cell(k), Upd(r, c, k),
         k.pc \in {"none", "ended"} \/ run[r].pc \in {"accept", "close", "drain", "abort"}
  PROVE  AppInv'
<1>1. /\ conn \in [Runs -> [Conns -> ConnType]] /\ k \in ConnType
      /\ \A u \in Runs, d \in Conns : Cell(conn[u][d])
  BY DEF AppInv, AppTypeOK, Cell
<1>2. conn' = [conn EXCEPT ![r][c] = k] /\ token' = token /\ run' = run
  BY DEF Upd
<1>3. /\ conn' \in [Runs -> [Conns -> ConnType]] /\ conn'[r][c] = k
      /\ \A u \in Runs, d \in Conns : u # r \/ d # c => conn'[u][d] = conn[u][d]
  BY <1>1, <1>2
<1>4. \A u \in Runs, d \in Conns : Cell(conn'[u][d])
  BY <1>1, <1>3
<1>5. AppTypeOK'
  BY <1>2, <1>3, <1>4 DEF AppInv, AppTypeOK, Cell
<1>6. ASSUME NEW u \in Runs
      PROVE  /\ u # r => (Ended(u)' <=> Ended(u))
             /\ Ended(r) /\ k.pc \in {"none", "ended"} => Ended(r)'
             /\ ~(k.pc \in {"none", "ended"}) => run[r].pc \in {"accept", "close", "drain", "abort"}
  BY <1>3 DEF Ended
<1>7. OneClient'
  <2> SUFFICES ASSUME NEW u \in Runs
               PROVE  /\ token' = u <=> run'[u].pc \in Inside \cup {"returned"}
                      /\ run'[u].bound \/ ~Ended(u)' => run'[u].pc \in Inside
    BY DEF OneClient
  <2>1. /\ token = u <=> run[u].pc \in Inside \cup {"returned"}
        /\ run[u].bound \/ ~Ended(u) => run[u].pc \in Inside
    BY DEF AppInv, OneClient
  <2>2. {"accept", "close", "drain", "abort"} \subseteq Inside
    BY DEF Inside
  <2> QED  BY <1>2, <1>6, <2>1, <2>2
<1>8. ASSUME NEW u \in Runs
      PROVE  /\ run'[u].pc \in {"idle", "built", "start"} => run'[u].told = 0
             /\ run'[u].pc \in {"start", "setup"} => Ended(u)'
  BY <1>2, <1>6 DEF AppInv
<1> QED  BY <1>4, <1>5, <1>7, <1>8 DEF AppInv

\* Nobody runs a client at first.
LEMMA AppInitInv == AppInit => AppInv
<1> SUFFICES ASSUME AppInit PROVE AppInv
  OBVIOUS
<1> DEFINE q == CHOOSE q \in Requests : TRUE
<1>1. q \in Requests /\ q \in Seq(STRING)
  BY AppAssumption
<1> HIDE DEF q
<1>2. /\ token = None
      /\ run = [r \in Runs |-> [pc |-> "idle", cancelled |-> FALSE, bound |-> FALSE, told |-> 0,
                                client |-> "none"]]
      /\ conn = [r \in Runs |-> [c \in Conns |->
                  [pc |-> "none", req |-> q, here |-> 0, proto |-> "none",
                   kind |-> "connect", stream |-> FALSE, reader |-> FALSE]]]
  BY DEF AppInit, q
<1>3. ASSUME NEW r \in Runs, NEW c \in Conns PROVE Cell(conn[r][c])
  <2>1. 0 <= Len(q)
    BY <1>1
  <2> DEFINE k == conn[r][c]
  <2>2. k = [pc |-> "none", req |-> q, here |-> 0, proto |-> "none", kind |-> "connect",
             stream |-> FALSE, reader |-> FALSE]
    BY <1>2
  <2> HIDE DEF k
  <2>3. k \in ConnType
    BY <1>1, <2>2 DEF ConnType
  <2>4. k.here = 0 /\ k.req = q /\ k.proto = "none" /\ k.pc = "none" /\ k.stream = FALSE
    BY <2>2
  <2>5. k.stream <=> k.pc \in {"write", "reply", "relay", "udp"}
    <3>1. k.pc \notin {"write", "reply", "relay", "udp"}
      BY <2>4
    <3> QED  BY Zenon, <2>4, <3>1
  <2>6. k.here <= Len(k.req)
    BY <2>1, <2>4
  <2>7. Cell(k)
    BY Zenon, <2>3, <2>4, <2>5, <2>6 DEF Cell
  <2> QED  BY <2>7 DEF k
<1>4. AppTypeOK
  <2>1. conn \in [Runs -> [Conns -> ConnType]]
    BY <1>1, <1>2 DEF ConnType
  <2>2. run \in [Runs -> RunType]
    BY <1>2 DEF RunType
  <2> QED  BY Zenon, <1>2, <1>3, <2>1, <2>2 DEF AppTypeOK, Cell
<1>5. ASSUME NEW r \in Runs
      PROVE  run[r].pc = "idle" /\ ~run[r].bound /\ run[r].told = 0 /\ Ended(r) /\ token # r
  BY <1>2, AppAssumption DEF Ended
<1>6. OneClient
  BY <1>5 DEF OneClient, Inside
<1> QED  BY <1>3, <1>4, <1>5, <1>6 DEF AppInv

\* The calls of run, and what run_client does.
LEMMA RunStepInv ==
  ASSUME AppInv, NEW r \in Runs, FfiStep(r) \/ RunStep(r)
  PROVE  AppInv'
<1> DEFINE p == run[r]
<1>1. /\ run \in [Runs -> RunType] /\ p \in RunType /\ token \in Runs \cup {None}
      /\ token = r <=> p.pc \in Inside \cup {"returned"}
      /\ \A u \in Runs \ {r} : token = u <=> run[u].pc \in Inside \cup {"returned"}
      /\ p.bound \/ ~Ended(r) => p.pc \in Inside
      /\ p.pc \in {"idle", "built", "start"} => p.told = 0
      /\ p.pc \in {"start", "setup"} => Ended(r)
      /\ None # r
  BY AppAssumption DEF AppInv, AppTypeOK, OneClient
<1>2. ASSUME NEW pc \in {"idle", "built", "start", "setup", "accept", "close", "drain", "abort",
                         "returned", "cleared", "over"}
      PROVE  LET q == [p EXCEPT !.pc = pc]
             IN  /\ q \in RunType /\ q.pc = pc /\ q.bound = p.bound /\ q.told = p.told
                 /\ Go(r, pc) => run' = [run EXCEPT ![r] = q]
  BY <1>1 DEF RunType, Go
<1> HIDE DEF p
<1>3. CASE Call(r)
  <2>1. PICK pc \in {"built", "over"} : Go(r, pc)
    BY <1>3 DEF Call
  <2>2. p.pc = "idle" /\ UNCHANGED <<token, conn>>
    BY <1>3 DEF Call, p
  <2> DEFINE q == [p EXCEPT !.pc = pc]
  <2>3. q \in RunType /\ q.pc = pc /\ q.bound = p.bound /\ q.told = p.told /\ run' = [run EXCEPT ![r] = q]
    BY <1>2, <2>1
  <2> HIDE DEF q
  <2> QED  BY Zenon, <1>1, <2>2, <2>3, RunChange DEF Inside
<1>4. CASE Register(r)
  <2>1. p.pc = "built" /\ UNCHANGED conn
    BY <1>4 DEF Register, p
  <2>2. CASE token # None
    <3> DEFINE q == [p EXCEPT !.pc = "over"]
    <3>1. Go(r, "over") /\ token' = token
      BY <1>4, <2>2 DEF Register
    <3>2. q \in RunType /\ q.pc = "over" /\ q.bound = p.bound /\ run' = [run EXCEPT ![r] = q]
      BY <1>2, <3>1
    <3> HIDE DEF q
    <3> QED  BY Zenon, <1>1, <2>1, <3>1, <3>2, RunChange DEF Inside
  <2>3. CASE token = None
    <3> DEFINE q == [p EXCEPT !.pc = "start"]
    <3>1. Go(r, "start") /\ token' = r
      BY <1>4, <2>3 DEF Register
    <3>2. /\ q \in RunType /\ q.pc = "start" /\ q.bound = p.bound /\ q.told = p.told
          /\ run' = [run EXCEPT ![r] = q]
      BY <1>2, <3>1
    <3> HIDE DEF q
    <3>3. \A u \in Runs \ {r} : token' = u <=> token = u
      BY <2>3, <3>1, AppAssumption
    <3> QED  BY Zenon, <1>1, <2>1, <3>1, <3>2, <3>3, RunChange DEF Inside
  <2> QED  BY <2>2, <2>3
<1>5. CASE Clear(r)
  <2>1. p.pc = "returned" /\ token' = None /\ Go(r, "cleared") /\ UNCHANGED conn
    BY <1>5 DEF Clear, p
  <2> DEFINE q == [p EXCEPT !.pc = "cleared"]
  <2>2. /\ q \in RunType /\ q.pc = "cleared" /\ q.bound = p.bound /\ q.told = p.told
        /\ run' = [run EXCEPT ![r] = q]
    BY <1>2, <2>1
  <2> HIDE DEF q
  <2>3. token = r /\ \A u \in Runs \ {r} : token' = u <=> token = u
    BY <1>1, <2>1, AppAssumption
  <2> QED  BY Zenon, <1>1, <2>1, <2>2, <2>3, RunChange DEF Inside
<1>6. CASE StartFails(r) \/ SetupFails(r) \/ Joined(r)
  <2>1. /\ p.pc \in {"start", "setup", "drain", "abort"} /\ Return(r) /\ UNCHANGED <<token, conn>>
        /\ Ended(r)
    BY <1>1, <1>6 DEF StartFails, SetupFails, Joined, p
  <2> DEFINE q == [p EXCEPT !.pc = "returned", !.bound = FALSE]
  <2>2. /\ q \in RunType /\ q.pc = "returned" /\ ~q.bound
        /\ run' = [run EXCEPT ![r] = q]
    BY Zenon, <1>1, <2>1 DEF RunType, Return, p
  <2> HIDE DEF q
  <2> QED  BY Zenon, <1>1, <2>1, <2>2, RunChange DEF Inside
<1>7. CASE Listen(r)
  <2>1. p.pc = "start" /\ UNCHANGED <<token, conn>>
    BY <1>7 DEF Listen, p
  <2> DEFINE q == [p EXCEPT !.pc = "setup", !.bound = TRUE, !.told = @ + 1]
  <2>2. /\ q \in RunType /\ q.pc = "setup" /\ run' = [run EXCEPT ![r] = q]
    BY <1>1, <1>7, <2>1 DEF RunType, Listen, p
  <2> HIDE DEF q
  <2> QED  BY Zenon, <1>1, <2>1, <2>2, RunChange DEF Inside
<1>8. CASE Setup(r) \/ CloseClient(r)
  <2>1. PICK pc \in {"accept", "drain"}, k \in {"open", "closed"} :
          run' = [run EXCEPT ![r].pc = pc, ![r].client = k]
    BY <1>8 DEF Setup, CloseClient
  <2>2. p.pc \in {"setup", "close"} /\ UNCHANGED <<token, conn>>
    BY <1>8 DEF Setup, CloseClient, p
  <2> DEFINE q == [p EXCEPT !.pc = pc, !.client = k]
  <2>3. /\ q \in RunType /\ q.pc = pc /\ run' = [run EXCEPT ![r] = q]
    BY Zenon, <1>1, <2>1 DEF RunType, p
  <2> HIDE DEF q
  <2> QED  BY Zenon, <1>1, <2>2, <2>3, RunChange DEF Inside
<1>9. CASE AcceptFails(r) \/ AcceptCancelled(r) \/ DrainTimeout(r)
  <2>1. PICK pc \in {"close", "abort"} : Go(r, pc)
    BY <1>9 DEF AcceptFails, AcceptCancelled, DrainTimeout
  <2>2. p.pc \in {"accept", "drain"} /\ UNCHANGED <<token, conn>>
    BY <1>9 DEF AcceptFails, AcceptCancelled, DrainTimeout, p
  <2> DEFINE q == [p EXCEPT !.pc = pc]
  <2>3. q \in RunType /\ q.pc = pc /\ q.bound = p.bound /\ q.told = p.told /\ run' = [run EXCEPT ![r] = q]
    BY <1>2, <2>1
  <2> HIDE DEF q
  <2> QED  BY Zenon, <1>1, <2>2, <2>3, RunChange DEF Inside
<1>10. CASE DropRuntime(r)
  <2>1. /\ p.pc = "cleared" /\ Go(r, "over") /\ token' = token
        /\ conn' = [conn EXCEPT ![r] = [c \in Conns |-> [conn[r][c] EXCEPT !.reader = FALSE]]]
    BY <1>10 DEF DropRuntime, p
  <2> DEFINE q == [p EXCEPT !.pc = "over"]
  <2>2. q \in RunType /\ q.pc = "over" /\ q.bound = p.bound /\ run' = [run EXCEPT ![r] = q]
    BY <1>2, <2>1
  <2> HIDE DEF q
  <2>3. /\ conn \in [Runs -> [Conns -> ConnType]]
        /\ \A u \in Runs, c \in Conns : Cell(conn[u][c])
    BY DEF AppInv, AppTypeOK
  <2>4. /\ run' \in [Runs -> RunType] /\ run'[r] = q /\ \A u \in Runs \ {r} : run'[u] = run[u]
    BY <1>1, <2>2
  <2>5. ASSUME NEW k \in ConnType, Cell(k)
        PROVE  LET h == [k EXCEPT !.reader = FALSE]
               IN  h \in ConnType /\ Cell(h) /\ h.pc = k.pc
    BY Zenon, <2>5 DEF Cell, ConnType
  <2>6. ASSUME NEW c \in Conns
        PROVE  conn'[r][c] \in ConnType /\ Cell(conn'[r][c]) /\ conn'[r][c].pc = conn[r][c].pc
    BY <2>1, <2>3, <2>5
  <2>7. \A u \in Runs \ {r} : conn'[u] = conn[u]
    BY <2>1, <2>3
  <2>8. conn' \in [Runs -> [Conns -> ConnType]]
    BY <2>1, <2>3, <2>5
  <2>9. \A u \in Runs, c \in Conns : Cell(conn'[u][c])
    BY <2>3, <2>6, <2>7
  <2>10. \A u \in Runs : Ended(u)' <=> Ended(u)
    BY <2>6, <2>7 DEF Ended
  <2>11. AppTypeOK'
    BY <1>1, <2>1, <2>4, <2>8, <2>9 DEF AppTypeOK, Cell
  <2>12. OneClient'
    BY <1>1, <2>1, <2>2, <2>4, <2>10 DEF AppInv, OneClient, Inside
  <2>13. \A u \in Runs : /\ run'[u].pc \in {"idle", "built", "start"} => run'[u].told = 0
                         /\ run'[u].pc \in {"start", "setup"} => Ended(u)'
    BY <2>2, <2>4, <2>10 DEF AppInv
  <2> QED  BY <2>9, <2>11, <2>12, <2>13 DEF AppInv
<1> QED  BY <1>3, <1>4, <1>5, <1>6, <1>7, <1>8, <1>9, <1>10 DEF FfiStep, RunStep

\* anytls_client_stop cancels the token there is.
LEMMA StopInv == ASSUME AppInv, Stop PROVE AppInv'
<1>1. PICK r \in Runs : token = r
  BY DEF AppInv, AppTypeOK, Stop
<1> DEFINE q == [run[r] EXCEPT !.cancelled = TRUE]
<1>2. UNCHANGED <<token, conn>> /\ run' = [run EXCEPT ![r].cancelled = TRUE]
  BY <1>1 DEF Stop
<1>3. run[r] \in RunType /\ run \in [Runs -> RunType] /\ token \in Runs \cup {None}
  BY DEF AppInv, AppTypeOK
<1>4. /\ q \in RunType /\ q.pc = run[r].pc /\ q.bound = run[r].bound /\ q.told = run[r].told
      /\ run' = [run EXCEPT ![r] = q]
  BY Zenon, <1>2, <1>3 DEF RunType
<1> HIDE DEF q
<1>5. /\ token = r <=> run[r].pc \in Inside \cup {"returned"}
      /\ run[r].bound \/ ~Ended(r) => run[r].pc \in Inside
      /\ run[r].pc \in {"idle", "built", "start"} => run[r].told = 0
      /\ run[r].pc \in {"start", "setup"} => Ended(r)
  BY DEF AppInv, OneClient
<1> QED  BY Zenon, <1>2, <1>3, <1>4, <1>5, RunChange

\* A task that goes on: what it has of its request, and the verdict, stay.
LEMMA CellMoves ==
  ASSUME NEW k, NEW h, Cell(k), h \in ConnType, h.req = k.req, h.here = k.here,
         h.proto = k.proto, h.pc # "none", (h.stream <=> h.pc \in {"write", "reply", "relay", "udp"})
  PROVE  Cell(h)
BY DEF Cell

\* It ends.
LEMMA CellOver ==
  ASSUME NEW k, Cell(k)
  PROVE  Cell(Over(k)) /\ Over(k).pc = "ended"
<1>1. k \in ConnType
  BY DEF Cell
<1>2. /\ Over(k) \in ConnType /\ Over(k).req = k.req /\ Over(k).here = k.here
      /\ Over(k).proto = k.proto /\ Over(k).pc = "ended" /\ Over(k).stream = FALSE
  BY Zenon, <1>1 DEF Over, ConnType
<1>3. (Over(k).stream <=> Over(k).pc \in {"write", "reply", "relay", "udp"})
  <2>1. Over(k).pc \notin {"write", "reply", "relay", "udp"}
    BY <1>2
  <2> QED  BY Zenon, <1>2, <2>1
<1>4. Over(k).pc # "none"
  BY <1>2
<1> QED  BY Zenon, <1>2, <1>3, <1>4, CellMoves

\* A connection task goes on or ends.
LEMMA ConnStepInv ==
  ASSUME AppInv, NEW r \in Runs, NEW c \in Conns, ConnStep(r, c)
  PROVE  AppInv'
<1> DEFINE k == conn[r][c]
           live == run[r].pc \in {"accept", "close", "drain", "abort"}
<1>1. /\ Cell(k) /\ k \in ConnType
      /\ k.pc \notin {"none", "ended"} => live
  <2>1. k.pc \notin {"none", "ended"} => ~Ended(r)
    BY DEF Ended
  <2>2. /\ ~Ended(r) => run[r].pc \in Inside
        /\ run[r].pc \in {"start", "setup"} => Ended(r)
    BY DEF AppInv, OneClient
  <2> QED  BY <2>1, <2>2 DEF AppInv, Cell, Inside
<1>2. /\ k.req \in Requests /\ k.req \in Seq(STRING) /\ k.here \in Nat /\ k.here <= Len(k.req)
      /\ k.kind \in {"connect", "udp", "http"} /\ k.stream \in BOOLEAN /\ k.reader \in BOOLEAN
      /\ k.pc = "none" => k.here = 0 /\ k.proto = "none"
  BY <1>1, AppAssumption DEF Cell, ConnType
<1> HIDE DEF k
<1>3. ASSUME Upd(r, c, Over(k)) PROVE AppInv'
  BY <1>1, <1>3, CellOver, ConnChange
<1>4. ASSUME live, NEW pc \in {"handshake", "http", "create", "write", "reply", "relay", "udp"},
             NEW kind \in {"connect", "udp", "http"}, NEW stream \in BOOLEAN, NEW reader \in BOOLEAN,
             (stream <=> pc \in {"write", "reply", "relay", "udp"}),
             Upd(r, c, [k EXCEPT !.pc = pc, !.kind = kind, !.stream = stream, !.reader = reader])
      PROVE  AppInv'
  <2> DEFINE h == [k EXCEPT !.pc = pc, !.kind = kind, !.stream = stream, !.reader = reader]
  <2>1. k \in ConnType
    BY <1>1
  <2>2. h \in ConnType
    BY Zenon, <2>1 DEF ConnType
  <2>3. /\ h.req = k.req /\ h.here = k.here
        /\ h.proto = k.proto /\ h.pc = pc /\ h.stream = stream
    BY Zenon, <2>1 DEF ConnType
  <2> HIDE DEF h
  <2>4. h.pc # "none" /\ (h.stream <=> h.pc \in {"write", "reply", "relay", "udp"})
    BY <1>4, <2>3
  <2>5. Cell(h)
    BY <1>1, <2>3, <2>4, <2>2, CellMoves
  <2> QED  BY <1>4, <2>5, ConnChange DEF h
<1>5. CASE Accept(r, c)
  <2>1. PICK q \in Requests : conn' = [conn EXCEPT ![r][c].pc = "detect", ![r][c].req = q]
    BY Zenon, <1>5 DEF Accept
  <2>2. k.pc = "none" /\ run[r].pc = "accept" /\ UNCHANGED <<token, run>>
    BY <1>5 DEF Accept, k
  <2> DEFINE h == [k EXCEPT !.pc = "detect", !.req = q]
  <2>3. /\ h \in ConnType /\ h.pc = "detect" /\ h.req = q /\ h.here = 0 /\ h.proto = "none"
        /\ h.stream = k.stream
    BY Zenon, <1>1, <1>2, <2>2 DEF ConnType
  <2>4. Upd(r, c, h)
    BY Zenon, <2>1, <2>2 DEF Upd, k
  <2> HIDE DEF h
  <2>5. 0 <= Len(q)
    BY AppAssumption
  <2>6. h.here <= Len(h.req)
    BY <2>3, <2>5
  <2>7. ~h.stream
    BY <1>1, <2>2, <2>3 DEF Cell
  <2>8. Cell(h)
    BY <2>3, <2>6, <2>7 DEF Cell
  <2> QED  BY <2>2, <2>4, <2>8, ConnChange
<1>6. CASE Arrive(r, c)
  <2> DEFINE h == [k EXCEPT !.here = @ + 1]
  <2>1. k.pc = "detect" /\ k.here < Len(k.req) /\ Upd(r, c, h)
    BY <1>6 DEF Arrive, At, k
  <2>2. /\ h \in ConnType /\ h.pc = k.pc /\ h.req = k.req /\ h.here = k.here + 1
        /\ h.proto = k.proto /\ h.stream = k.stream
    BY <1>1, <1>2 DEF ConnType
  <2> HIDE DEF h
  <2>3. h.here <= Len(h.req)
    BY <1>2, <2>1, <2>2
  <2>4. Cell(h)
    BY <1>1, <2>1, <2>2, <2>3 DEF Cell
  <2> QED  BY <1>1, <2>1, <2>4, ConnChange
<1>7. CASE Detect(r, c)
  <2> DEFINE v == Verdict(Prefix(k.req, k.here))
             d == [k EXCEPT !.proto = v]
  <2>1. /\ k.pc = "detect" /\ k.here > 0 /\ v # "none"
        /\ Upd(r, c, IF v \notin Supports THEN Over(d)
                     ELSE IF v = "socks5" THEN [d EXCEPT !.pc = "handshake"]
                     ELSE [d EXCEPT !.pc = "http", !.kind = "http"])
    BY <1>7 DEF Detect, k
  <2>2. v = Protocol(k.req)
    <3>1. k.here \in 1 .. Len(k.req)
      BY <1>2, <2>1
    <3> QED  BY <1>2, <2>1, <3>1, VerdictIsProtocol, AppAssumption
  <2>3. v \in {"socks5", "socks4", "http", "unknown"}
    BY <2>1 DEF Verdict
  <2> HIDE DEF v
  <2>4. /\ d \in ConnType /\ d.pc = k.pc /\ d.req = k.req /\ d.here = k.here /\ d.proto = v
        /\ d.stream = k.stream /\ d.reader = k.reader /\ d.kind = k.kind
    BY <1>1, <2>3 DEF ConnType
  <2> HIDE DEF d
  <2>5. Cell(d)
    BY <1>1, <2>1, <2>2, <2>4 DEF Cell
  <2>6. CASE v \notin Supports
    BY <2>1, <2>5, <2>6, CellOver, ConnChange
  <2>7. ASSUME v \in Supports, NEW pc \in {"handshake", "http"}, NEW kind \in {"connect", "udp", "http"},
               Upd(r, c, [d EXCEPT !.pc = pc, !.kind = kind])
        PROVE  AppInv'
    <3> DEFINE h == [d EXCEPT !.pc = pc, !.kind = kind]
    <3>1. /\ h \in ConnType /\ h.req = d.req /\ h.here = d.here /\ h.proto = d.proto
          /\ h.pc = pc /\ h.stream = d.stream
      BY Zenon, <2>4 DEF ConnType
    <3> HIDE DEF h
    <3>2. ~h.stream /\ h.pc # "none"
      BY <1>1, <2>1, <2>4, <3>1 DEF Cell
    <3>3. Cell(h)
      BY <2>5, <3>1, <3>2, CellMoves
    <3> QED  BY <1>1, <2>1, <2>7, <3>3, ConnChange DEF h
  <2>8. CASE v \in Supports /\ v = "socks5"
    <3>1. [d EXCEPT !.pc = "handshake"] = [d EXCEPT !.pc = "handshake", !.kind = k.kind]
      BY Zenon, <2>4 DEF ConnType
    <3> QED  BY Zenon, <1>2, <2>1, <2>7, <2>8, <3>1
  <2>9. CASE v \in Supports /\ v # "socks5"
    BY <2>1, <2>7, <2>9
  <2> QED  BY <2>6, <2>8, <2>9
<1>8. CASE DetectLate(r, c)
  <2> DEFINE d == [k EXCEPT !.proto = "late"]
  <2>1. k.pc = "detect" /\ Upd(r, c, Over(d))
    BY <1>8 DEF DetectLate, At, k
  <2>2. /\ d \in ConnType /\ d.pc = k.pc /\ d.req = k.req /\ d.here = k.here /\ d.proto = "late"
        /\ d.stream = k.stream
    BY <1>1 DEF ConnType
  <2> HIDE DEF d
  <2>3. Cell(d)
    BY <1>1, <2>1, <2>2 DEF Cell
  <2> QED  BY <2>1, <2>3, CellOver, ConnChange
<1>9. CASE Negotiate(r, c)
  <2>1. PICK kind \in {"connect", "udp"} : Upd(r, c, [k EXCEPT !.pc = "create", !.kind = kind])
    BY Zenon, <1>9 DEF Negotiate, k
  <2>2. k.pc = "handshake" /\ ~k.stream
    BY <1>1, <1>9 DEF Negotiate, At, k, Cell
  <2>3. [k EXCEPT !.pc = "create", !.kind = kind]
          = [k EXCEPT !.pc = "create", !.kind = kind, !.stream = FALSE, !.reader = k.reader]
    BY Zenon, <1>1, <1>2, <2>2 DEF ConnType
  <2> QED  BY Zenon, <1>1, <1>2, <1>4, <2>1, <2>2, <2>3
<1>10. CASE \/ NegotiateFails(r, c) \/ HttpEnds(r, c) \/ ReplyFails(r, c) \/ ConnAborted(r, c)
  BY <1>3, <1>10 DEF NegotiateFails, HttpEnds, ReplyFails, ConnAborted, k
<1>11. CASE HttpRequest(r, c)
  <2>1. k.pc = "http" /\ ~k.stream /\ Upd(r, c, [k EXCEPT !.pc = "create"])
    BY <1>1, <1>11 DEF HttpRequest, At, k, Cell
  <2>2. [k EXCEPT !.pc = "create"]
          = [k EXCEPT !.pc = "create", !.kind = k.kind, !.stream = FALSE, !.reader = k.reader]
    BY Zenon, <1>1, <1>2, <2>1 DEF ConnType
  <2> QED  BY Zenon, <1>1, <1>2, <1>4, <2>1, <2>2
<1>12. CASE CreateStream(r, c)
  <2>1. k.pc = "create" /\ Upd(r, c, [k EXCEPT !.pc = "write", !.stream = TRUE])
    BY <1>12 DEF CreateStream, At, k
  <2>2. [k EXCEPT !.pc = "write", !.stream = TRUE]
          = [k EXCEPT !.pc = "write", !.kind = k.kind, !.stream = TRUE, !.reader = k.reader]
    BY Zenon, <1>1, <1>2, <2>1 DEF ConnType
  <2> QED  BY Zenon, <1>1, <1>2, <1>4, <2>1, <2>2
<1>13. ASSUME k.pc \in {"create", "write", "relay"}, Upd(r, c, [k EXCEPT !.pc = "http", !.stream = FALSE])
       PROVE  AppInv'
  <2>1. [k EXCEPT !.pc = "http", !.stream = FALSE]
          = [k EXCEPT !.pc = "http", !.kind = k.kind, !.stream = FALSE, !.reader = k.reader]
    BY Zenon, <1>1, <1>2 DEF ConnType
  <2> QED  BY Zenon, <1>1, <1>2, <1>4, <1>13, <2>1
<1>14. CASE CreateFails(r, c) \/ WriteTargetFails(r, c)
  BY <1>3, <1>13, <1>14 DEF CreateFails, WriteTargetFails, Gives, At, k
<1>15. CASE WriteTarget(r, c)
  <2>1. PICK pc \in {"relay", "reply"} : Upd(r, c, [k EXCEPT !.pc = pc])
    BY <1>15 DEF WriteTarget, k
  <2>2. k.pc = "write" /\ k.stream
    BY <1>1, <1>15 DEF WriteTarget, At, k, Cell
  <2>3. [k EXCEPT !.pc = pc]
          = [k EXCEPT !.pc = pc, !.kind = k.kind, !.stream = TRUE, !.reader = k.reader]
    BY Zenon, <1>1, <1>2, <2>2 DEF ConnType
  <2> QED  BY Zenon, <1>1, <1>2, <1>4, <2>1, <2>2, <2>3
<1>16. CASE Reply(r, c)
  <2>1. k.pc = "reply" /\ k.stream
    BY <1>1, <1>16 DEF Reply, At, k, Cell
  <2>2. CASE k.kind = "udp"
    <3>1. Upd(r, c, [k EXCEPT !.pc = "udp", !.reader = TRUE])
      BY <1>16, <2>2 DEF Reply, k
    <3>2. [k EXCEPT !.pc = "udp", !.reader = TRUE]
            = [k EXCEPT !.pc = "udp", !.kind = k.kind, !.stream = TRUE, !.reader = TRUE]
      BY Zenon, <1>1, <1>2, <2>1 DEF ConnType
    <3> QED  BY Zenon, <1>1, <1>2, <1>4, <2>1, <3>1, <3>2
  <2>3. CASE k.kind # "udp"
    <3>1. Upd(r, c, [k EXCEPT !.pc = "relay"])
      BY <1>16, <2>3 DEF Reply, k
    <3>2. [k EXCEPT !.pc = "relay"]
            = [k EXCEPT !.pc = "relay", !.kind = k.kind, !.stream = TRUE, !.reader = k.reader]
      BY Zenon, <1>1, <1>2, <2>1 DEF ConnType
    <3> QED  BY Zenon, <1>1, <1>2, <1>4, <2>1, <3>1, <3>2
  <2> QED  BY <2>2, <2>3
<1>17. CASE RelayEnds(r, c)
  BY <1>3, <1>13, <1>17 DEF RelayEnds, At, k
<1>18. ASSUME NEW d, d = [k EXCEPT !.reader = FALSE]
       PROVE  Cell(d) /\ d.pc = k.pc
  <2>1. /\ d \in ConnType /\ d.pc = k.pc /\ d.req = k.req /\ d.here = k.here
        /\ d.proto = k.proto /\ d.stream = k.stream
    BY Zenon, <1>1, <1>18 DEF ConnType
  <2> QED  BY <1>1, <2>1 DEF Cell
<1>19. CASE UdpEnds(r, c)
  <2> DEFINE d == [k EXCEPT !.reader = FALSE]
  <2>1. Upd(r, c, Over(d)) /\ Cell(d)
    BY <1>18, <1>19 DEF UdpEnds, k
  <2> HIDE DEF d
  <2> QED  BY <2>1, CellOver, ConnChange
<1>20. CASE ReaderEnds(r, c)
  <2> DEFINE d == [k EXCEPT !.reader = FALSE]
  <2>1. Upd(r, c, d) /\ Cell(d) /\ d.pc = k.pc
    BY <1>18, <1>20 DEF ReaderEnds, k
  <2> HIDE DEF d
  <2> QED  BY <1>1, <2>1, ConnChange
<1> QED  BY <1>5, <1>6, <1>7, <1>8, <1>9, <1>10, <1>11, <1>12, <1>14, <1>15, <1>16, <1>17, <1>19,
             <1>20 DEF ConnStep

\* Every step keeps the invariant.
LEMMA AppNextInv == AppInv /\ [AppNext]_appVars => AppInv'
<1> SUFFICES ASSUME AppInv, [AppNext]_appVars PROVE AppInv'
  OBVIOUS
<1>1. CASE Stop
  BY <1>1, StopInv
<1>2. CASE \E r \in Runs : FfiStep(r) \/ RunStep(r)
  BY <1>2, RunStepInv
<1>3. CASE \E r \in Runs : \E c \in Conns : ConnStep(r, c)
  BY <1>3, ConnStepInv
<1>4. CASE UNCHANGED appVars
  <2>1. \A u \in Runs : Ended(u)' <=> Ended(u)
    BY <1>4 DEF appVars, Ended
  <2> QED  BY <1>4, <2>1 DEF appVars, AppInv, AppTypeOK, OneClient
<1> QED  BY <1>1, <1>2, <1>3, <1>4 DEF AppNext

\* The invariant holds throughout.
LEMMA AppSafety == AppSpec => []AppInv
BY AppInitInv, AppNextInv, PTL DEF AppSpec

\* A connection task has a stream exactly from create_stream to the end of what it relays
\* (handle_socks5, run_http_service).
THEOREM AppTypeCorrect == AppSpec => []AppTypeOK
<1>1. AppInv => AppTypeOK
  BY DEF AppInv
<1> QED  BY <1>1, AppSafety, PTL

\* However calls of anytls_client_run and anytls_client_stop interleave, one client runs at a
\* time and the token in the cell is its own (anytls_client_run).
THEOREM OneClientHolds == AppSpec => []OneClient
<1>1. AppInv => OneClient
  BY DEF AppInv
<1> QED  BY <1>1, AppSafety, PTL

\* However the bytes of a request arrive, detect_listener_protocol decides as it would on the
\* whole of it, for any methods and any requests.
THEOREM DetectedWholeHolds == AppSpec => []DetectedWhole
<1>1. AppInv => DetectedWhole
  BY DEF AppInv, DetectedWhole, Cell
<1> QED  BY <1>1, AppSafety, PTL
=============================================================================
