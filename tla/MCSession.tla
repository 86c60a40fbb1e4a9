------------------------------ MODULE MCSession ------------------------------
(* StreamData, Heartbeat and PaddedLink for model checking.  They are three *)
(* views of a session, each with what it needs of the writer and the        *)
(* transport, so a behaviour is one of one of them with the others at their *)
(* beginnings.                                                              *)
EXTENDS StreamData, Heartbeat, PaddedLink

\* Ranges in both orders and one that is empty, marks, records shorter and longer than a
\* frame, and waste alone; the first packet after the stop comes early.
MCScheme ==
  [client |-> [stop |-> 2,
               line |-> [p \in {1} |-> <<<<1, 3>>, << >>, <<0, 2>>, <<6, 4>>>>]],
   server |-> [stop |-> 3,
               line |-> [p \in {1, 2} |->
                           IF p = 1 THEN <<<<7, 7>>, <<1, 3>>>>
                           ELSE <<<<3, 3>>, << >>, <<4, 5>>, << >>, <<7, 7>>>>]]]

MCInit == Init /\ HbInit /\ PlInit

\* One of the initial states is enough for the others' behaviours.
PlIdle == PlInit /\ nextId = 0

MCNext ==
  \/ HbInit /\ PlIdle /\ Next /\ UNCHANGED <<hbVars, plVars>>
  \/ Init /\ PlIdle /\ HbNext /\ UNCHANGED <<vars, plVars>>
  \/ Init /\ HbInit /\ PlNext /\ UNCHANGED <<vars, hbVars>>

MCFairSpec ==
  /\ MCInit /\ [][MCNext]_<<vars, hbVars, plVars>>
  /\ <>[](HbInit /\ PlInit) => Fairness

\* Queues, permits, clocks and writers stay what their declarations allow: no permit is given
\* back twice, no deadline is missed unseen, no packet is padded after the last one of every
\* scheme (StreamState, do_heartbeat_task, Writer).
MCTypeOK == TypeOK /\ HbTypeOK /\ PlTypeOK
=============================================================================
