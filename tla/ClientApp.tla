------------------------------ MODULE ClientApp ------------------------------
(***************************************************************************)
(* The client program: anytls_client_run and anytls_client_stop, run_client*)
(* with its listener, and the tasks of the local connections, SOCKS5       *)
(* CONNECT, UDP ASSOCIATE with its reader task, and HTTP.  Threads of the  *)
(* host call run at any time, and stop from anywhere, the callback too.    *)
(*                                                                         *)
(* A stream is what ClientPool gives or refuses; peers and targets do as   *)
(* they like.  Timeouts may fire whenever what they limit has not ended.   *)
(***************************************************************************)
EXTENDS Naturals, Sequences, FiniteSets

CONSTANTS
  Runs,       \* calls of anytls_client_run
  Conns,      \* connections a listener accepts
  Requests,   \* what a local peer may send first: sequences of letters
  Methods,    \* http_methods
  Supports,   \* the protocols of the listener's proxy type
  None

ASSUME AppAssumption ==
  /\ None \notin Runs
  /\ Requests # {} /\ Requests \subseteq Seq(STRING) /\ Methods \subseteq Seq(STRING)
  /\ Supports \in SUBSET {"socks5", "http"}

VARIABLES
  token,   \* CLIENT_TOKEN: whose it is
  run,     \* the calls of run, with their listeners and clients
  conn     \* the connection tasks of each

appVars == <<token, run, conn>>

RunType ==
  [pc        : {"idle", "built", "start", "setup", "accept", "close", "drain", "abort",
                "returned", "cleared", "over"},
   cancelled : BOOLEAN,                     \* its token
   bound     : BOOLEAN,                     \* its listener
   told      : 0 .. 1,                      \* calls of on_listening
   client    : {"none", "open", "closed"}]  \* Client

ConnType ==
  [pc      : {"none", "detect", "handshake", "http", "create", "write", "reply", "relay",
              "udp", "ended"},
   req     : Requests,
   here    : Nat,                           \* how much of it has arrived
   proto   : {"none", "socks5", "socks4", "http", "unknown", "late"},
   kind    : {"connect", "udp", "http"},
   stream  : BOOLEAN,                       \* it has a stream
   reader  : BOOLEAN]                       \* its reader task runs

\* Where a call of run is inside run_client.
Inside == {"start", "setup", "accept", "close", "drain", "abort"}

AppInit ==
  /\ token = None
  /\ run = [r \in Runs |-> [pc |-> "idle", cancelled |-> FALSE, bound |-> FALSE, told |-> 0,
                            client |-> "none"]]
  /\ conn = [r \in Runs |-> [c \in Conns |->
              [pc |-> "none", req |-> CHOOSE q \in Requests : TRUE, here |-> 0, proto |-> "none",
               kind |-> "connect", stream |-> FALSE, reader |-> FALSE]]]

-----------------------------------------------------------------------------
(* detect_listener_protocol.                                               *)

Prefix(m, n) == SubSeq(m, 1, n)

\* is_http_request: a method and a space.
IsHttpRequest(b) ==
  \E m \in Methods : Len(b) > Len(m) /\ Prefix(b, Len(m)) = m /\ b[Len(m) + 1] = " "

\* Mutant: a method that has arrived in part is not waited for.
CouldBePrefixWhole(b) == b \in Methods

\* could_be_http_request_prefix: what has arrived agrees with a method as far as both go,
\* and a space follows the method if anything does.
CouldBePrefix(b) ==
  \E m \in Methods :
    LET n == IF Len(b) <= Len(m) THEN Len(b) ELSE Len(m)
    IN  Prefix(b, n) = Prefix(m, n) /\ (Len(b) <= Len(m) \/ b[Len(m) + 1] = " ")

\* What a peek at the bytes b says; "none" to look again.
Verdict(b) ==
  IF b[1] = "5" THEN "socks5"
  ELSE IF b[1] = "4" THEN "socks4"
  ELSE IF IsHttpRequest(b) THEN "http"
  ELSE IF CouldBePrefix(b) THEN "none"
  ELSE "unknown"

-----------------------------------------------------------------------------
(* anytls_client_run and anytls_client_stop.                               *)

Go(r, pc) == run' = [run EXCEPT ![r].pc = pc]

\* The command line is parsed and a runtime built, or not.
Call(r) ==
  /\ run[r].pc = "idle"
  /\ Go(r, "built") \/ Go(r, "over")
  /\ UNCHANGED <<token, conn>>

\* Mutant: whether a client runs is not asked.
RegisterAnyway(r) ==
  /\ run[r].pc = "built"
  /\ token' = r /\ Go(r, "start")
  /\ UNCHANGED conn

\* Under the lock of CLIENT_TOKEN.
Register(r) ==
  /\ run[r].pc = "built"
  /\ IF token # None THEN Go(r, "over") /\ UNCHANGED token
     ELSE token' = r /\ Go(r, "start")
  /\ UNCHANGED conn

Stop ==
  /\ token # None /\ ~run[token].cancelled
  /\ run' = [run EXCEPT ![token].cancelled = TRUE]
  /\ UNCHANGED <<token, conn>>

\* run_client has returned: under the lock again.
Clear(r) ==
  /\ run[r].pc = "returned"
  /\ token' = None /\ Go(r, "cleared")
  /\ UNCHANGED conn

\* The runtime is dropped, with every task that is left, and run returns.
DropRuntime(r) ==
  /\ run[r].pc = "cleared"
  /\ Go(r, "over")
  /\ conn' = [conn EXCEPT ![r] = [c \in Conns |-> [conn[r][c] EXCEPT !.reader = FALSE]]]
  /\ UNCHANGED token

-----------------------------------------------------------------------------
(* run_client.                                                             *)

\* It returns, and drops its listener.
Return(r) == run' = [run EXCEPT ![r].pc = "returned", ![r].bound = FALSE]

\* A URL is printed, the TLS configuration fails, or the address is taken.
StartFails(r) ==
  /\ run[r].pc = "start" /\ Return(r)
  /\ UNCHANGED <<token, conn>>

\* The listener is bound and on_listening called.
Listen(r) ==
  /\ run[r].pc = "start"
  /\ run' = [run EXCEPT ![r].pc = "setup", ![r].bound = TRUE, ![r].told = @ + 1]
  /\ UNCHANGED <<token, conn>>

\* The padding scheme cannot be read.
SetupFails(r) ==
  /\ run[r].pc = "setup" /\ Return(r)
  /\ UNCHANGED <<token, conn>>

Setup(r) ==
  /\ run[r].pc = "setup"
  /\ run' = [run EXCEPT ![r].pc = "accept", ![r].client = "open"]
  /\ UNCHANGED <<token, conn>>

Accept(r, c) ==
  /\ run[r].pc = "accept" /\ conn[r][c].pc = "none"
  /\ \E q \in Requests : conn' = [conn EXCEPT ![r][c].pc = "detect", ![r][c].req = q]
  /\ UNCHANGED <<token, run>>

AcceptFails(r) ==
  /\ run[r].pc = "accept" /\ Go(r, "close")
  /\ UNCHANGED <<token, conn>>

AcceptCancelled(r) ==
  /\ run[r].pc = "accept" /\ run[r].cancelled /\ Go(r, "close")
  /\ UNCHANGED <<token, conn>>

\* Client::shutdown: no more streams, and those there are break (ClientPool).
CloseClient(r) ==
  /\ run[r].pc = "close"
  /\ run' = [run EXCEPT ![r].pc = "drain", ![r].client = "closed"]
  /\ UNCHANGED <<token, conn>>

Ended(r) == \A c \in Conns : conn[r][c].pc \in {"none", "ended"}

\* Mutant: the tasks are waited for without a limit.
DrainForever(r) ==
  /\ run[r].pc = "drain" /\ Ended(r) /\ Go(r, "abort")
  /\ UNCHANGED <<token, conn>>

\* Five seconds have passed: abort_all.
DrainTimeout(r) ==
  /\ run[r].pc = "drain" /\ ~Ended(r) /\ Go(r, "abort")
  /\ UNCHANGED <<token, conn>>

\* Every task is joined.
Joined(r) ==
  /\ run[r].pc \in {"drain", "abort"} /\ Ended(r) /\ Return(r)
  /\ UNCHANGED <<token, conn>>

-----------------------------------------------------------------------------
(* handle_listener_stream and what it calls.                               *)

At(r, c, pc) == conn[r][c].pc = pc
Upd(r, c, k) == conn' = [conn EXCEPT ![r][c] = k] /\ UNCHANGED <<token, run>>

\* The task returns; its stream goes with it.
Over(k) == [k EXCEPT !.pc = "ended", !.stream = FALSE]

\* More of the request arrives.
Arrive(r, c) ==
  /\ At(r, c, "detect") /\ conn[r][c].here < Len(conn[r][c].req)
  /\ Upd(r, c, [conn[r][c] EXCEPT !.here = @ + 1])

\* A protocol the listener has not, SOCKS4 and anything unknown are shut down.
Detect(r, c) ==
  LET k == conn[r][c]
      v == Verdict(Prefix(k.req, k.here))
      d == [k EXCEPT !.proto = v]
  IN  /\ k.pc = "detect" /\ k.here > 0 /\ v # "none"
      /\ Upd(r, c, IF v \notin Supports THEN Over(d)
                   ELSE IF v = "socks5" THEN [d EXCEPT !.pc = "handshake"]
                   ELSE [d EXCEPT !.pc = "http", !.kind = "http"])

\* Five seconds, or the peer is gone.
DetectLate(r, c) ==
  /\ At(r, c, "detect")
  /\ Upd(r, c, Over([conn[r][c] EXCEPT !.proto = "late"]))

\* negotiate_socks5_request: CONNECT, UDP ASSOCIATE with a socket bound for it, ...
Negotiate(r, c) ==
  /\ At(r, c, "handshake")
  /\ \E k \in {"connect", "udp"} : Upd(r, c, [conn[r][c] EXCEPT !.pc = "create", !.kind = k])

\* ... BIND, an error, or no request in SOCKS_HANDSHAKE_TIMEOUT.
NegotiateFails(r, c) == At(r, c, "handshake") /\ Upd(r, c, Over(conn[r][c]))

\* run_http_service asks its connector for a stream, for each request anew.
HttpRequest(r, c) == At(r, c, "http") /\ Upd(r, c, [conn[r][c] EXCEPT !.pc = "create"])

HttpEnds(r, c) == At(r, c, "http") /\ Upd(r, c, Over(conn[r][c]))

CreateStream(r, c) ==
  /\ At(r, c, "create") /\ run[r].client = "open"
  /\ Upd(r, c, [conn[r][c] EXCEPT !.pc = "write", !.stream = TRUE])

\* The task fails; the HTTP service may go on with the next request instead.
Gives(r, c) ==
  \/ Upd(r, c, Over(conn[r][c]))
  \/ conn[r][c].kind = "http" /\ Upd(r, c, [conn[r][c] EXCEPT !.pc = "http", !.stream = FALSE])

\* create_stream fails, also because the client is closed.
CreateFails(r, c) == At(r, c, "create") /\ Gives(r, c)

\* The destination, and for UDP the UoT request, go to the stream.
WriteTarget(r, c) ==
  /\ At(r, c, "write") /\ run[r].client = "open"
  /\ Upd(r, c, [conn[r][c] EXCEPT !.pc = IF conn[r][c].kind = "http" THEN "relay" ELSE "reply"])

WriteTargetFails(r, c) == At(r, c, "write") /\ Gives(r, c)

\* The peer is told of the success; for UDP the reader task is spawned.
Reply(r, c) ==
  /\ At(r, c, "reply")
  /\ Upd(r, c, IF conn[r][c].kind = "udp"
               THEN [conn[r][c] EXCEPT !.pc = "udp", !.reader = TRUE]
               ELSE [conn[r][c] EXCEPT !.pc = "relay"])

ReplyFails(r, c) == At(r, c, "reply") /\ Upd(r, c, Over(conn[r][c]))

\* Mutant: the stream of one HTTP request is kept for the next.
RelayEndsKeeping(r, c) ==
  /\ At(r, c, "relay")
  /\ Upd(r, c, IF conn[r][c].kind = "http" THEN [conn[r][c] EXCEPT !.pc = "http"]
               ELSE Over(conn[r][c]))

\* copy_bidirectional returns, or not, as long as peer and target are quiet.
RelayEnds(r, c) ==
  /\ At(r, c, "relay")
  /\ Upd(r, c, IF conn[r][c].kind = "http" THEN [conn[r][c] EXCEPT !.pc = "http", !.stream = FALSE]
               ELSE Over(conn[r][c]))

\* Mutant: the reader task is left to find out by itself.
UdpEndsUnaborted(r, c) ==
  /\ At(r, c, "udp")
  /\ Upd(r, c, Over(conn[r][c]))

\* The control connection is closed, the reader has failed, a datagram is a fragment or
\* cannot be relayed: the reader is aborted, the stream half-closed and dropped.
UdpEnds(r, c) ==
  /\ At(r, c, "udp")
  /\ Upd(r, c, Over([conn[r][c] EXCEPT !.reader = FALSE]))

\* The reader's stream ends, by the peer or with its session.
ReaderEnds(r, c) ==
  /\ conn[r][c].reader
  /\ Upd(r, c, [conn[r][c] EXCEPT !.reader = FALSE])

\* abort_all: the task is dropped where it waits, its handle of the reader task with it.
ConnAborted(r, c) ==
  /\ run[r].pc = "abort" /\ conn[r][c].pc \notin {"none", "ended"}
  /\ Upd(r, c, Over(conn[r][c]))

-----------------------------------------------------------------------------
FfiStep(r) == Call(r) \/ Register(r) \/ Clear(r) \/ DropRuntime(r)

RunStep(r) ==
  \/ StartFails(r) \/ Listen(r) \/ SetupFails(r) \/ Setup(r) \/ AcceptFails(r)
  \/ AcceptCancelled(r) \/ CloseClient(r) \/ DrainTimeout(r) \/ Joined(r)

ConnStep(r, c) ==
  \/ Accept(r, c) \/ Arrive(r, c) \/ Detect(r, c) \/ DetectLate(r, c)
  \/ Negotiate(r, c) \/ NegotiateFails(r, c) \/ HttpRequest(r, c) \/ HttpEnds(r, c)
  \/ CreateStream(r, c) \/ CreateFails(r, c) \/ WriteTarget(r, c) \/ WriteTargetFails(r, c)
  \/ Reply(r, c) \/ ReplyFails(r, c) \/ RelayEnds(r, c) \/ UdpEnds(r, c)
  \/ ReaderEnds(r, c) \/ ConnAborted(r, c)

AppNext ==
  \/ Stop
  \/ \E r \in Runs : FfiStep(r) \/ RunStep(r) \/ \E c \in Conns : ConnStep(r, c)

AppSpec == AppInit /\ [][AppNext]_appVars

\* run_client's own steps and the drain's limit; the host's callback returns.  Nothing is
\* assumed of the connection tasks, which wait for peers and targets; the reader task
\* ends when its session is closed.
AppFairness ==
  \A r \in Runs :
    /\ WF_appVars(StartFails(r) \/ Listen(r)) /\ WF_appVars(SetupFails(r) \/ Setup(r))
    /\ WF_appVars(AcceptCancelled(r)) /\ WF_appVars(CloseClient(r))
    /\ WF_appVars(DrainTimeout(r)) /\ WF_appVars(Joined(r))
    /\ WF_appVars(Clear(r)) /\ WF_appVars(DropRuntime(r))
    /\ \A c \in Conns : /\ WF_appVars(ConnAborted(r, c))
                        /\ WF_appVars(run[r].client = "closed" /\ ReaderEnds(r, c))

AppFairSpec == AppSpec /\ AppFairness

-----------------------------------------------------------------------------
(* Properties.                                                             *)

\* A task has a stream from create_stream to the end of what it relays by it.
AppTypeOK ==
  /\ token \in Runs \cup {None}
  /\ run \in [Runs -> RunType]
  /\ conn \in [Runs -> [Conns -> ConnType]]
  /\ \A r \in Runs, c \in Conns :
       conn[r][c].stream <=> conn[r][c].pc \in {"write", "reply", "relay", "udp"}

\* One client at a time, although run is called by several threads and the token is put
\* back before the old runtime is gone: CLIENT_TOKEN is that of the call that is inside
\* run_client, and only there is a listener or a connection task, whether it was cancelled,
\* failed to accept, or never started (anytls_client_run, run_client).
OneClient ==
  \A r \in Runs :
    /\ token = r <=> run[r].pc \in Inside \cup {"returned"}
    /\ run[r].bound \/ ~Ended(r) => run[r].pc \in Inside

\* What a request is, whatever pieces it comes in.
Protocol(q) ==
  IF q[1] = "5" THEN "socks5" ELSE IF q[1] = "4" THEN "socks4"
  ELSE IF IsHttpRequest(q) THEN "http" ELSE "unknown"

\* The verdict does not depend on how much of the request had arrived when the listener
\* peeked at it (detect_listener_protocol).
DetectedWhole ==
  \A r \in Runs, c \in Conns :
    conn[r][c].proto \in {"none", "late", Protocol(conn[r][c].req)}

\* A stop that finds a client ends it: run returns, whatever local peers, targets and the
\* server do.  What is cancelled stays so (anytls_client_stop, run_client).
StopStops == []<>(\A r \in Runs : run[r].cancelled => run[r].pc = "over")

\* A reader task does not go on for ever after its association is over, and no association
\* begins again (handle_udp_associate: aborted with it, or its session closed by then).
ReadersEnd ==
  []<>(\A r \in Runs, c \in Conns : ~(conn[r][c].pc = "ended" /\ conn[r][c].reader))
=============================================================================
