---------------------------- MODULE ServerTasks -----------------------------
(***************************************************************************)
(* The tasks of the server binary: the accept loop of run_server, a task   *)
(* for each connection (handle_connection), a task for each stream of its  *)
(* session (relay_stream), and how they end when a session or the server   *)
(* is closed.                                                              *)
(*                                                                         *)
(* Time passes in units of five seconds, and only when no task is ready to *)
(* run.  A client that has an id is assumed; what the audit says of it may *)
(* be different each time it is asked.                                     *)
(***************************************************************************)
EXTENDS Integers

CONSTANTS
  Conns,        \* connections
  Streams,      \* the streams of a connection
  MaxCarried,   \* what a stream carries
  ConnDrain,    \* how long a connection waits for its streams
  ServerDrains  \* how long the server waits for its connections: the ten seconds of the
                \* code, and shorter times with which the connections are aborted

ASSUME ServerAssumption ==
  MaxCarried \in Nat /\ ConnDrain \in Nat /\ ServerDrains \subseteq Nat \ {0}

VARIABLES
  srv,         \* run_server: where it is, how long it goes on waiting
  cancelled,   \* cancel_token
  conn,        \* the connection tasks and their sessions
  strm         \* the stream tasks

srvVars == <<srv, cancelled, conn, strm>>

Hello == {"tls", "auth", "forward", "padding"}

ConnType ==
  [pc   : Hello \cup {"none", "approve", "serve", "drain", "abort", "aborted", "ended"},
   ses  : {"none", "open", "closed"},
   left : Nat]

StreamType ==
  [pc      : {"none", "target", "check", "connect", "relay", "count", "finish",
              "uot", "uot_count", "aborted", "ended"},
   carried : 0 .. MaxCarried,     \* upstream_bytes, downstream_bytes; datagrams
   counted : 0 .. MaxCarried,     \* what was added to the audit
   killed  : BOOLEAN]           \* the task was aborted

NoStream == [pc |-> "none", carried |-> 0, counted |-> 0, killed |-> FALSE]

SrvInit ==
  /\ \E limit \in ServerDrains : srv = [pc |-> "accept", limit |-> limit, left |-> limit]
  /\ cancelled = FALSE
  /\ conn = [k \in Conns |-> [pc |-> "none", ses |-> "none", left |-> ConnDrain]]
  /\ strm = [k \in Conns |-> [s \in Streams |-> NoStream]]

Over(t) == t.pc \in {"none", "ended"}
StreamsOver(k) == \A s \in Streams : Over(strm[k][s])
ConnsOver == \A k \in Conns : Over(conn[k])

\* JoinSet::abort_all, or the JoinSet dropped: each task ends where it waits.
Abort(t) == IF Over(t) THEN t ELSE [t EXCEPT !.pc = "aborted", !.killed = TRUE]
AbortStreams(k) == [s \in Streams |-> Abort(strm[k][s])]

-----------------------------------------------------------------------------
(* run_server.                                                             *)

Cancel ==
  /\ ~cancelled
  /\ cancelled' = TRUE
  /\ UNCHANGED <<srv, conn, strm>>

AcceptConnection(k) ==
  /\ srv.pc = "accept" /\ conn[k].pc = "none"
  /\ conn' = [conn EXCEPT ![k].pc = "tls"]
  /\ UNCHANGED <<srv, cancelled, strm>>

\* Mutant: only an error ends the loop.
AcceptLoopDeaf ==
  /\ srv.pc = "accept" /\ ~cancelled
  /\ cancelled' = TRUE
  /\ srv' = [srv EXCEPT !.pc = "tasks"]
  /\ UNCHANGED <<conn, strm>>

\* The loop is cancelled, or accept fails, which cancels everything else.
AcceptLoopEnds ==
  /\ srv.pc = "accept"
  /\ cancelled' = TRUE
  /\ srv' = [srv EXCEPT !.pc = "tasks"]
  /\ UNCHANGED <<conn, strm>>

\* The TLS reload task and the panel task have ended, or were aborted.
TasksJoined ==
  /\ srv.pc = "tasks"
  /\ srv' = [srv EXCEPT !.pc = "drain"]
  /\ UNCHANGED <<cancelled, conn, strm>>

ServerDrained ==
  /\ srv.pc \in {"drain", "abort"} /\ ConnsOver
  /\ srv' = [srv EXCEPT !.pc = "done"]
  /\ UNCHANGED <<cancelled, conn, strm>>

\* The connection tasks are aborted.
ServerTimeout ==
  /\ srv.pc = "drain" /\ srv.left = 0 /\ ~ConnsOver
  /\ srv' = [srv EXCEPT !.pc = "abort"]
  /\ conn' = [k \in Conns |-> IF Over(conn[k]) THEN conn[k] ELSE [conn[k] EXCEPT !.pc = "aborted"]]
  /\ UNCHANGED <<cancelled, strm>>

-----------------------------------------------------------------------------
(* handle_connection.                                                      *)

\* TLS, then the header: authenticated or forwarded to a website, or let go.
HelloStep(k) ==
  /\ \/ conn[k].pc = "tls" /\ conn' = [conn EXCEPT ![k].pc = "auth"]
     \/ conn[k].pc = "auth" /\ \E pc \in {"padding", "forward", "ended"} :
                                  conn' = [conn EXCEPT ![k].pc = pc]
     \/ conn[k].pc = "padding" /\ conn' = [conn EXCEPT ![k].pc = "approve"]
  /\ UNCHANGED <<srv, cancelled, strm>>

\* A read or the handshake fails, forwarding ends, or the server is cancelled.
HelloEnds(k) ==
  /\ conn[k].pc \in Hello
  /\ conn' = [conn EXCEPT ![k].pc = "ended"]
  /\ UNCHANGED <<srv, cancelled, strm>>

\* is_enabled, asked under the audit's lock; then the session runs.
Approve(k) ==
  /\ conn[k].pc = "approve"
  /\ \/ conn' = [conn EXCEPT ![k].pc = "ended"]
     \/ conn' = [conn EXCEPT ![k] = [@ EXCEPT !.pc = "serve", !.ses = "open"]]
  /\ UNCHANGED <<srv, cancelled, strm>>

\* The select is not biased: a stream may still be accepted when the session or the server
\* is closing.
AcceptStream(k, s) ==
  /\ conn[k].pc = "serve" /\ strm[k][s].pc = "none"
  /\ strm' = [strm EXCEPT ![k][s].pc = "target"]
  /\ UNCHANGED <<srv, cancelled, conn>>

\* The peer goes away, or the transport fails.
SessionCloses(k) ==
  /\ conn[k].ses = "open"
  /\ conn' = [conn EXCEPT ![k].ses = "closed"]
  /\ UNCHANGED <<srv, cancelled, strm>>

\* Mutant: a cancelled connection lets its session be.
ServeEndsUnshut(k) ==
  /\ conn[k].pc = "serve" /\ (cancelled \/ conn[k].ses = "closed")
  /\ conn' = [conn EXCEPT ![k] = [@ EXCEPT !.pc = "drain"]]
  /\ UNCHANGED <<srv, cancelled, strm>>

\* Mutant: the connection waits for as long as the server does.
ServeEndsLate(k) ==
  /\ conn[k].pc = "serve" /\ (cancelled \/ conn[k].ses = "closed")
  /\ conn' = [conn EXCEPT ![k] = [pc |-> "drain", ses |-> "closed", left |-> srv.limit]]
  /\ UNCHANGED <<srv, cancelled, strm>>

\* The loop ends and the session is shut down.
ServeEnds(k) ==
  /\ conn[k].pc = "serve" /\ (cancelled \/ conn[k].ses = "closed")
  /\ conn' = [conn EXCEPT ![k] = [@ EXCEPT !.pc = "drain", !.ses = "closed"]]
  /\ UNCHANGED <<srv, cancelled, strm>>

ConnDrained(k) ==
  /\ conn[k].pc \in {"drain", "abort"} /\ StreamsOver(k)
  /\ conn' = [conn EXCEPT ![k].pc = "ended"]
  /\ UNCHANGED <<srv, cancelled, strm>>

\* Mutant: the streams are waited for however long it takes.
ConnTimeoutNever(k) ==
  /\ conn[k].pc = "drain" /\ conn[k].left = 0 /\ StreamsOver(k)
  /\ conn' = [conn EXCEPT ![k].pc = "abort"]
  /\ strm' = [strm EXCEPT ![k] = AbortStreams(k)]
  /\ UNCHANGED <<srv, cancelled>>

\* The stream tasks are aborted.
ConnTimeout(k) ==
  /\ conn[k].pc = "drain" /\ conn[k].left = 0 /\ ~StreamsOver(k)
  /\ conn' = [conn EXCEPT ![k].pc = "abort"]
  /\ strm' = [strm EXCEPT ![k] = AbortStreams(k)]
  /\ UNCHANGED <<srv, cancelled>>

\* The server's abort reaches the task: its JoinSet goes, and aborts the streams.
ConnAborted(k) ==
  /\ conn[k].pc = "aborted"
  /\ conn' = [conn EXCEPT ![k].pc = "ended"]
  /\ strm' = [strm EXCEPT ![k] = AbortStreams(k)]
  /\ UNCHANGED <<srv, cancelled>>

-----------------------------------------------------------------------------
(* relay_stream.                                                           *)

Goes(k, s, pc) == strm' = [strm EXCEPT ![k][s].pc = pc] /\ UNCHANGED <<srv, cancelled, conn>>

\* read_target; a closed session's stream is at its end.
TargetRead(k, s) ==
  /\ strm[k][s].pc = "target"
  /\ \E pc \in {"check", "ended"} : Goes(k, s, pc)

\* is_enabled again; a client disabled meanwhile is refused (handshake_failure).  Then a
\* connection is made to the target, or a UDP socket.
Check(k, s) ==
  /\ strm[k][s].pc = "check"
  /\ \E pc \in {"connect", "uot", "finish"} : Goes(k, s, pc)

\* The target is connected and the handshake reported, or the failure is.
Connect(k, s) ==
  /\ strm[k][s].pc = "connect"
  /\ \E pc \in {"relay", "finish"} : Goes(k, s, pc)

\* CountedIo::poll_write
CarryBytes(k, s) ==
  /\ strm[k][s].pc = "relay" /\ strm[k][s].carried < MaxCarried
  /\ strm' = [strm EXCEPT ![k][s].carried = @ + 1]
  /\ UNCHANGED <<srv, cancelled, conn>>

\* Mutant: an error is returned at once.
RelayEndsEarly(k, s) ==
  /\ strm[k][s].pc = "relay"
  /\ \E pc \in {"count", "ended"} : Goes(k, s, pc)

\* copy_bidirectional returns: both directions have ended, or one has failed.
RelayEnds(k, s) ==
  /\ strm[k][s].pc = "relay"
  /\ Goes(k, s, "count")

\* add_upstream, add_downstream
Count(k, s) ==
  /\ strm[k][s].pc = "count"
  /\ strm' = [strm EXCEPT ![k][s] = [@ EXCEPT !.pc = "finish", !.counted = strm[k][s].carried]]
  /\ UNCHANGED <<srv, cancelled, conn>>

\* Both ends are shut down, or the failure is written.
Finish(k, s) == strm[k][s].pc = "finish" /\ Goes(k, s, "ended")

\* relay_uot_datagrams: a datagram is relayed, and then counted.
UotCarry(k, s) ==
  /\ strm[k][s].pc = "uot" /\ strm[k][s].carried < MaxCarried
  /\ strm' = [strm EXCEPT ![k][s] = [@ EXCEPT !.pc = "uot_count", !.carried = strm[k][s].carried + 1]]
  /\ UNCHANGED <<srv, cancelled, conn>>

\* Mutant: a datagram is counted in both directions.
UotCountTwice(k, s) ==
  /\ strm[k][s].pc = "uot_count"
  /\ strm' = [strm EXCEPT ![k][s] = [@ EXCEPT !.pc = "uot", !.counted = @ + 2]]
  /\ UNCHANGED <<srv, cancelled, conn>>

UotCount(k, s) ==
  /\ strm[k][s].pc = "uot_count"
  /\ strm' = [strm EXCEPT ![k][s] = [@ EXCEPT !.pc = "uot", !.counted = strm[k][s].counted + 1]]
  /\ UNCHANGED <<srv, cancelled, conn>>

\* The stream ends, or the socket fails.
UotEnds(k, s) == strm[k][s].pc = "uot" /\ Goes(k, s, "ended")

StreamAborted(k, s) == strm[k][s].pc = "aborted" /\ Goes(k, s, "ended")

-----------------------------------------------------------------------------
(* Time.                                                                   *)

ConnReady(k) ==
  \/ conn[k].pc \in Hello /\ cancelled
  \/ conn[k].pc \in {"approve", "aborted"}
  \/ conn[k].pc = "serve" /\ (cancelled \/ conn[k].ses = "closed")
  \/ conn[k].pc = "drain" /\ (conn[k].left = 0 \/ StreamsOver(k))
  \/ conn[k].pc = "abort" /\ StreamsOver(k)

\* Some task is ready, whatever the network does.
Ready ==
  \/ srv.pc = "accept" /\ cancelled
  \/ srv.pc = "drain" /\ (srv.left = 0 \/ ConnsOver)
  \/ srv.pc = "abort" /\ ConnsOver
  \/ \E k \in Conns :
       \/ ConnReady(k)
       \/ \E s \in Streams : strm[k][s].pc \in {"check", "count", "uot_count", "aborted"}

Down(t) == IF t.pc = "drain" THEN [t EXCEPT !.left = @ - 1] ELSE t

\* Five seconds pass for those who wait.
Elapse ==
  /\ ~Ready
  /\ srv.pc = "drain" \/ \E k \in Conns : conn[k].pc = "drain"
  /\ srv' = Down(srv)
  /\ conn' = [k \in Conns |-> Down(conn[k])]
  /\ UNCHANGED <<cancelled, strm>>

-----------------------------------------------------------------------------
ServerStep == Cancel \/ AcceptLoopEnds \/ TasksJoined \/ ServerDrained \/ ServerTimeout

ConnStep(k) ==
  \/ AcceptConnection(k) \/ HelloStep(k) \/ HelloEnds(k) \/ Approve(k) \/ SessionCloses(k)
  \/ ServeEnds(k) \/ ConnDrained(k) \/ ConnTimeout(k) \/ ConnAborted(k)

StreamStep(k, s) ==
  \/ AcceptStream(k, s) \/ TargetRead(k, s) \/ Check(k, s) \/ Connect(k, s)
  \/ CarryBytes(k, s) \/ RelayEnds(k, s) \/ Count(k, s) \/ Finish(k, s)
  \/ UotCarry(k, s) \/ UotCount(k, s) \/ UotEnds(k, s) \/ StreamAborted(k, s)

SrvNext ==
  \/ ServerStep \/ Elapse
  \/ \E k \in Conns : ConnStep(k)
  \/ \E k \in Conns, s \in Streams : StreamStep(k, s)

SrvSpec == SrvInit /\ [][SrvNext]_srvVars

\* Tasks that are ready run, and time passes.  Nothing is assumed of peers and targets: a
\* handshake, a connect or a relay may never end.
SrvFairness ==
  /\ WF_srvVars(cancelled /\ AcceptLoopEnds) /\ WF_srvVars(TasksJoined)
  /\ WF_srvVars(ServerDrained) /\ WF_srvVars(ServerTimeout) /\ WF_srvVars(Elapse)
  /\ \A k \in Conns :
       /\ WF_srvVars(cancelled /\ HelloEnds(k)) /\ WF_srvVars(Approve(k)) /\ WF_srvVars(ServeEnds(k))
       /\ WF_srvVars(ConnDrained(k)) /\ WF_srvVars(ConnTimeout(k)) /\ WF_srvVars(ConnAborted(k))
       /\ \A s \in Streams : WF_srvVars(Check(k, s)) /\ WF_srvVars(Count(k, s))
                             /\ WF_srvVars(UotCount(k, s)) /\ WF_srvVars(StreamAborted(k, s))

SrvFairSpec == SrvSpec /\ SrvFairness

-----------------------------------------------------------------------------
(* Properties.                                                             *)

\* The states of the tasks; no waiting time is negative.
SrvTypeOK ==
  /\ srv \in [pc : {"accept", "tasks", "drain", "abort", "done"}, limit : ServerDrains, left : Nat]
  /\ cancelled \in BOOLEAN
  /\ conn \in [Conns -> ConnType]
  /\ strm \in [Conns -> [Streams -> StreamType]]

\* The connections end by themselves before the server's patience does: the five seconds of
\* handle_connection, counted from the cancellation, come before the ten of run_server,
\* whatever the streams wait for.  So no connection task is ever aborted.
DrainInTime == ConnDrain < srv.limit => srv.pc # "abort"

\* A connection task that has ended leaves neither an open session nor a stream task,
\* whatever was accepted while it was being closed (handle_connection).  Only when the server
\* has aborted the connection may a stream task be still on its way out.
NothingLeft ==
  \A k \in Conns : conn[k].pc = "ended" =>
    /\ conn[k].ses # "open"
    /\ \A s \in Streams :
         Over(strm[k][s]) \/ (strm[k][s].pc = "aborted" /\ srv.pc \in {"abort", "done"})

\* What a stream carried was added to the audit when its task ends, however the relay
\* ended, unless the task was aborted (relay_stream, relay_uot_datagrams).
FinishedIsCounted ==
  \A k \in Conns, s \in Streams :
    strm[k][s].pc = "ended" /\ ~strm[k][s].killed => strm[k][s].counted = strm[k][s].carried

\* A cancelled server stops, whatever peers and targets do or do not do (run_server).  Here
\* and below what leads to the end and the end itself are never taken back, so that "again
\* and again" says "at last".
ServerStops == []<>(cancelled => srv.pc = "done")

\* A connection whose session is closed comes to its end, although its relays may go on
\* waiting for their targets (handle_connection).
ConnectionEnds == []<>(\A k \in Conns : conn[k].ses = "closed" => conn[k].pc = "ended")

\* README.md: TCP and UOT traffic is accounted to the client: by the time the task that
\* relayed it has ended it is in the audit, but for the datagram in hand.
RelayedIsCounted ==
  \A k \in Conns, s \in Streams :
    strm[k][s].pc = "ended" => strm[k][s].carried - strm[k][s].counted <= 1
=============================================================================
