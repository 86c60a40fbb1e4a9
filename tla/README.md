# A TLA+ model of anytls-rs

anytls-rs carries proxied TCP and UDP flows inside long-lived TLS connections. A client keeps a
pool of *sessions* (one TLS connection each), runs one logical *stream* at a time over each, and
reuses a session when its stream is over. A server accepts sessions, relays their streams to their
targets, counts the traffic of each client and reports it to a panel. Most of what can go wrong is
between tasks: who closes what, who is told, what overtakes what, and what is left behind.

Everything here is translated from the Rust source. `PROJECT.json` maps each definition to its
lines; paths in this file are relative to the repository.

## The system

| part | state | operations | meets |
|---|---|---|---|
| Session (`src/runtime/session.rs`) | the one stream slot with `local_fin`, `remote_fin`, `read_closed`; `closed` and its token; a control and a data queue; age | reserve/open, accept, refuse, write, half-close, close, drop; writer task, receive loop, expiry task, shutdown | its peer over the transport, the pool, the applications |
| data path of a stream (same file) | data queue, transport, push channel with budgets of bytes and messages, pump, duplex pipe | `write_data`, `receive_loop` on Push and Fin, the pump task, `read` | one per direction |
| heartbeat (same file) | the request in flight, the deadlines of task and writer | `do_heartbeat_task`, `write_heartbeat`, the limit on a write | writer task, receive loop |
| settings, padded writer (same file, `core/padding.rs`) | the scheme the sessions share, the writer's buffer and packet counter | `on_receive_settings`, `write_conn`, `allocate_stream_id` | writer task, receive loop |
| Client (`src/client.rs`) | `idle_pool`, `close_token`, per session an idle receiver and a watcher task | `create_stream`, `take_idle`, `create_session`, `cleanup`, `shutdown` | Session |
| panel (`src/panel_sync/`) | audit counters, reported baseline, pending report with sequence | `sync_once`, `report_traffic_once`, `run` | relays, the panel's HTTP API |
| server (`bin/server.rs`, `src/relay.rs`) | connection tasks, stream tasks, cancel token | accept loop, `handle_connection`, `relay_stream`, `relay_uot_datagrams`, shutdown | Session, audit |
| TLS files (`bin/server.rs`) | two files, the watcher's channel, the current TLS state | `watch_tls_files`, `tls_config`, `reload_tls_on_events` | accept loop |
| relay and `StreamIo` (`src/relay.rs`, `src/runtime/stream_io.rs`) | buffers of two directions, futures kept between polls, counters | `copy_bidirectional`, `poll_read`, `poll_write`, `poll_shutdown` | Stream on one side, TCP on the other |
| client program (`src/client_app.rs`, `src/ffi.rs`) | `CLIENT_TOKEN`, listener, connection tasks, UDP reader tasks | `anytls_client_run`, `anytls_client_stop`, `run_client`, `handle_listener_stream`, `handle_socks5`, `handle_udp_associate` | Client, relay |
| UoT codec, CLI, log and traffic callbacks | | codecs, parsing, reports to the host | |

The behaviours that are hard to test: a SYN or a reset overtakes data because the writer serves the
control queue first; three tasks each set one flag of a stream and the last one must notice; a
stream is reserved while its session shuts down; timers and drop helpers act on a session that has
gone to another stream; the receive budget overflows while a FIN waits for room; a session reported
idle is taken, aged or closed before it is pooled; a `create_stream` future is dropped at any
await; a report is counted though its answer is lost; tasks are aborted where they wait; the answer
to a heartbeat overtakes the news that it was written; certificate and key are replaced one after
the other while they are read; the host starts and stops clients from several threads. `hazards` in
`PROJECT.json` lists them line by line with the properties that would catch them.

## Modules

| module | models | checked by | proved in |
|---|---|---|---|
| `SessionStreams` | both sessions of a connection, their tasks and handles | `streams_pushes`, `streams_reuse`, `streams_live`, `reuse_doc`, `close_doc` | `SessionStreamsSteps`, `SessionStreamsProofs` |
| `ByteStream` | what one direction of a stream, or of a tunnel, promises | as `Delivers` and `TunnelDelivers` | `StreamDataProofs`, `TunnelProofs` |
| `StreamData` | the bytes of one direction of one stream | `session` | `StreamDataProofs` |
| `Heartbeat` | the clocks of a session | `session` | `ClientSideProofs` |
| `PaddedLink` | the bytes under a session, and its first frames | `session` | `PaddedLinkProofs` |
| `ClientPool` | the client, its calls, its sessions as the pool sees them | `pool`, `pool_live` | `ClientPoolProofs` |
| `ClientApp` | the client program and its connection tasks | `app` | `ClientSideProofs` |
| `Tunnel` | one proxied connection through both relays | `app` | `TunnelProofs` |
| `ServerTasks` | the server's tasks and their time limits | `server`, `server_doc` | `ServerSideProofs` |
| `TlsReload` | the TLS files, their watch and their loads | `server` | `ServerSideProofs` |
| `PanelSync` | audit, panel client, panel | `server`, `panel_doc` | `ServerSideProofs` |

The modules meet at interfaces that each weakens in the safe direction. `SessionStreams` leaves
payloads without content and `StreamData` follows them; there a removal of the stream may happen at
any time, which covers every removal of `SessionStreams`. `Heartbeat` lets other tasks fill the
control queue and the transport take any time. `ClientPool` lets a stream end and a session close at
any time, and `ClientApp` lets the client give or refuse a stream. `Tunnel` uses a stream as
`ByteStream` describes it. `ServerTasks` lets a session close and an audit answer as it likes.
`PanelSync` lets any client carry bytes at any time.

`MCSession`, `MCServerTasks` and `MCClientApp` put modules that share no variables into one run: a
behaviour is one of one of them, with the others at their beginning. It is not a product of
independent state spaces, which would show nothing more.

### SessionStreams

`ses[x]` is one record per side: the slot, its flags, the two queues, the push channels, handles,
and for each stream the task that is closing, dropping or opening it. `wire[x]` is the ordered
transport. A handler is a composition of functions on the record (`OnFin`, `ReadClosed`, `Finish`,
`Remove`, ...) in the order of the calls in the code, and an action is what runs between two awaits
at which another task can interfere. So `close` is `Close` (FIN queued), `Write` (by the writer
task), `FinDone`, `Retire`; a drop is `Drop`, `DropHelper`, `Write`, `FinDone`, `Retire`.

What was merged, and why nothing is lost:

* the check and the removal in `finish_stream_if_closed`: the flags are never withdrawn;
* the two `closed` checks of `reserve_stream`, and the queueing of the SYN: a client waiting for
  room in the control queue acts as one that has not reserved yet;
* a lock section and the queueing of the FIN after it (`local_fin` is already set);
* the writer's taking and writing of a request. The requester goes on in a later step, and after a
  failure the completion comes before `closed`, as in the code;
* the check and the shutdown of the two timers;
* the message the pump is writing counts as still in the channel.

`Shutdown` is split: `closed` and the token first, the slot in `Drain`. `idle` stands for being on
offer to the pool. A successful SynAck changes nothing and is left out; settings and heartbeats have
their modules, and an alert ends the receive loop as an error does. A `close()` or `shutdown_write`
future given up half-way by a caller that keeps the handle is not modelled.

### StreamData and ByteStream

A byte is its offset in what was written, a chunk is `lo+1 .. hi`, and a FIN has a place among the
bytes. `push_slots` and the pipe are in bytes, the capacity of the push channel is in messages.
`Overlap` allows `shutdown_write` between the check and the queueing of a write, which puts data
after the FIN. `broken` is set when either end is removed early. `ByteStream` says: reads are
consecutive from offset zero and never beyond what was written; end of file only after everything
before the FIN, or after a break. The refinement mapping is the identity on counts and on what was
read. A reset looks like a clean end of file to the reader (that is `Stream::read`'s interface),
and `ByteStream` allows that only after a break.

### Heartbeat

One client session and what it hears of its peer. `beat` is `do_heartbeat_task` with the two
notifications it has enabled, `writer` the writer task with the deadline that any inbound frame puts
off, `ctl` the control queue, into which other tasks put requests too. Time is discrete and passes
only when no task is ready. `link.quiet` is the time since the last inbound frame. `past` leaves
out a frame that came at the very instant of a deadline, where `select!` may take either branch.
The peer may answer at once, late or never, and a write may take for ever.

### PaddedLink

A byte is a pair of a frame and a place in its encoding, so the reader can tell a header from a
payload and a cut frame from a whole one, without any bytes spelled out. `Take` is the
writer task taking a request: `WriteConn` holds its bytes back or makes them the packet, `rest`, and
looks up the ranges of its records under the scheme of that moment. Each `write_all` of the loop is a
step of its own (`WriteRecord`, and `WriteRest` for what the loop leaves), so the reader, the other
session's update and the next request may come between two records. The code draws all sizes of a
packet at once; here each is drawn, any size of its range, when the loop comes to it, which nobody
can tell. `Receive` decodes as `read_from_or_eof` does,
and `OnFrame` refuses what the code refuses: a wrong stream id, data where none is allowed, a SYN
before the Settings. The client's scheme is shared by its sessions, so `OtherUpdate` may change it
at any time. The stream id is counted modulo a small `MaxId`, and every start of the counter is an
initial state. Sizes are assumed to fit the 16 bits of a length: `parse_range` accepts larger ones,
for which the length of a waste frame would be cut; the default scheme has none.

### ClientPool

A session is its state, `closed`, `expired`, whose stream has the slot, its idle notifications and
the four tasks around it. Calls advance from await to await and may be dropped at
each (`Cancel`). `take_idle` picks the smallest id, as the code does. `Cleanup` removes any set of entries
that has the expired ones in it: which others are over `idle_timeout` is a matter of time.
A caller dropped between `take_idle` and `reserve_stream` leaves a session nobody knows of until it
expires. The history variable `lost` has those sessions: `NeverForgotten` says that this is the
only way to lose one, and `ExpiredIdleCloses` that expiry ends these too.

### PanelSync

Traffic is counts by client and direction; a client without an entry has zeros. `net` is a set from
which nothing is taken, so a request may arrive late, more than once or never. The panel is external:
it counts a (reporter id, sequence) once, which is what the retry of the code relies on. A process
that stops may still count relays that end later; nobody reports those. `panel.kept` is history: the
clients never taken off the panel's list. `NothingLost` and `AllBilled` are about them, whatever
happens to the others. Saturation at 2^64 bytes and
the end of the sequence numbers are beyond any instance and are left out.

### ServerTasks

Connection and stream tasks with the points where they wait. Time passes in units of five seconds
and only when no task is ready, which is what a deadline of tokio means to tasks that do not block:
`ConnDrain` = 1 and a limit of 2 for the server are the code's 5 and 10 seconds. `ServerDrains` has
also 1, with which the server aborts connections; `DrainInTime` says that it never has to while its
limit is the longer one. The selects of the accept
loops are not biased, so a stream may be accepted from a session that is closing. An aborted task
ends where it waits; dropping a connection's `JoinSet` aborts its streams. A server limit of zero
would abort before anything is joined; the code has none and `ServerAssumption` excludes it.

### TlsReload

Two files, each with a version or nothing that can be parsed, and somebody who changes one of them
at a time. The watch begins before the first load, a load reads the certificate and then the key,
and the reload task waits for an event, lets the debounce pass and loads again. The watcher reports
a change under the path of the file that was changed; how long the debounce is does not matter to
the properties, so it may end at any time. `Converges` is the promise of the reload: files left
alone with a matching pair come to be served, though the last change came during a load.

### ClientApp

Calls of `anytls_client_run` from several threads, `anytls_client_stop` from anywhere, `run_client`
from its listener to the drain with its five seconds, and each connection from the first peek to its
relay. A request is a short sequence of letters that arrives in pieces; `Verdict` is what one peek
says of it. `run_http_service` (of `socks_hub_core`) is external and runs inside the connection
task: it asks for a stream, relays, and may go on with the next request. The token is put back
before the runtime is dropped, so a second client may start while the reader tasks of the first are
still there; `OneClient` says what cannot overlap, and `ReadersEnd` that these end.

### Tunnel

Both relays of one connection and the stream between them, in both directions. A byte is its offset,
as in `StreamData`; `Up` and `Down` map the tunnel to two copies of `ByteStream`, so that what one
stream promises holds from the local peer to the target. `StreamIo` keeps the future of a write from
poll to poll: `PollWrite` queues the frame and `WriteReady` learns of it later, and the relay may
fail in between, which leaves that one write uncounted (`CountedIsWritten`). A stream that breaks
loses any part of what is under way and then reads as ended, so nobody who reads end of file can
tell a break from an end: `lost` is history and says which it was. The read future keeps the
capacity of the buffer it was first polled with; the relay always polls with the same one.

## Runs

| run | distinct states | shows |
|---|---|---|
| `streams_pushes` | 937,741 | data under way while one side half-closes and drops and the other drops: `FinNeverLost`: no removal leaves the peer waiting; `NoFinishMissed`: the last of the three flags is noticed |
| `streams_reuse` | 757,911 | `FinNeverLost` with two streams in turn on one session, which the client half-closes and the server closes, and whose server end expires |
| `streams_live` | 89,728 | with transport failures: `NoStreamAfterEnd`: nothing is left in an ended session, though a SYN is accepted without a look at `closed`; `ReleasedStreamLeavesSlot`, `ClosedSessionStops`, `PeerFollows` |
| `session` | 239,129 | what a session is made of. `StreamData`: `Delivers` (refines `ByteStream`), `BacklogBounded`, and `EndIsReached` for a reader that reads. `Heartbeat`: `NoFalseAlarm`, a session that hears its peer is not closed for silence; `StalledIsClosed`, a stalled one is, in time. `PaddedLink`: `DecodedAsSent` under any padding, `NeverRefused` by the peer's checks, `SettingsAgreed` |
| `pool` | 1,282,471 | `OneOwner`, `PoolBounded`, `NeverForgotten` |
| `pool_live` | 204,735 | `ClientStops`, `ExpiredIdleCloses` |
| `server` | 165,306 | `ServerTasks`: `DrainInTime`, `NothingLeft`, `FinishedIsCounted`, `ServerStops`, `ConnectionEnds`. `TlsReload`: `ServesAPair`, `Converges`. `PanelSync`: `NeverOverBilled`, `NothingLost`, `AllBilled` with lost, late and repeated reports, removals and restarts |
| `app` | 206,300 | `ClientApp`: `OneClient`, `DetectedWhole`, `StopStops`, `ReadersEnd`. `Tunnel`: `TunnelDelivers` (refines `ByteStream` twice), `CountedIsWritten`, `EndIsMet` |

`MCTypeOK` is the type invariant of all modules of `session`, `server` and `app`; those of
`SessionStreams` and `ClientPool` are proved (`TypeCorrect`, `PoolTypeCorrect`) and not run.

The bounds are the smallest at which the cases happen: two streams for reuse, two pushes against a
channel of one for overflow and a FIN that finds no room, a control queue of one so that it is full,
two sessions for one place in the pool, two processes and three bytes for a late report of the first
and a report that is repeated with more behind it, two connections whose drains overlap, two calls
of `run` with a connection each, two bytes one way and one the other through the tunnel, two
versions of the TLS files and three changes of them (a mismatch, its repair, and one change more
during a load). The heartbeat counts in units of five seconds and keeps the order of the code's
limits. The padding schemes have sizes of a few bytes against a header of two and payloads of at
most seven, so that each case of the loop happens: a packet filled exactly, one cut, one with waste
behind it, a check that stops it, and the end of the scheme. The panel instance has one client and
one direction: the books of two never meet, except in that a report carries both, and the proofs are
for any set of them. How the applications end their streams differs from run to run
(`MCSessionStreams`), and no run lets the client's end of a session expire; the two ends run the
same code, and the proofs cover every choice of calls. The proofs remove the bounds from the safety
properties they cover. Deadlock is not an error: closed sessions, stopped servers and exhausted
bounds really stop. Symmetry is used over the callers of `pool`, which are not ordered and have no
liveness property there.

Fairness is weak fairness of what a task does once it is ready: tokio polls a woken task, writes end
at their deadline (`WriteFail`), timers fire. `SF(Answered)` in `PanelSync` says that a request
repeated for ever is answered at some time. `AppFairness` has the steps of `run_client` and the
limit of its drain, and that the host's `on_listening` returns; it has nothing of the connection
tasks, which wait for peers and targets. `TlsFairness` has the watcher's delivery and the end of
loads and debounces, `TunFairness` the copying tasks and sockets that take what is written to them.
Never assumed: that an application reads, writes or closes (but `EndIsReached` needs a reader that
reads), that a peer, a target or a dialer answers, that a stream ends.

## Where the code and its documents differ

| run | finding |
|---|---|
| `reuse_doc` | the SYN of the next stream overtakes the FIN of the one before; the server rejects it and the client shuts the session down instead of reusing it |
| `close_doc` | `close()` of a stream that is already over shuts the session down under the next stream (and so does the late end of a dropped stream, once the session has expired) |
| `panel_doc` | a client removed and put back while a report is pending gets the old baseline, and its next bytes are not reported |
| `server_doc` | a TCP relay that is aborted after the five seconds of a connection's drain is not counted at all |

Each of these runs has one property, taken from the text `findings` quotes, and TLC's trace is the
sequence of steps that contradicts it.

## Proofs

TLAPS checks the theorems for all values of the constants that satisfy the named assumptions
(`ConstantsAssumption`, `DataAssumption`, `PoolAssumption`, `PanelAssumption`, `HeartbeatAssumption`,
`ServerAssumption`, `TlsAssumption`, `AppAssumption`, `TunnelAssumption`, `PaddingAssumption`): bounds are natural
numbers, or positive ones where the code's constant must be; switches are Boolean; `None` is neither
a caller, a call nor a number; a file's version is not the 0 of a missing one; requests and
methods are sequences of letters; a scheme's lines list marks and ranges whose ends fit the length
field.

* **`SessionStreamsProofs`**: `TypeCorrect`, `FinIsNeverLost`, `FinishIsNeverMissed`,
  `EndedSessionIsEmpty`. `FinNeverLost` is not inductive: that a FIN is on its way follows from
  where it was queued, which depends on whether the SYN before it has been read. `Inv` adds
  what a session knows of itself (`SessionOK`: whose flags, which tasks, who is about to finish a
  stream), that a SYN is the first frame of its stream and nothing follows a stream it has not
  begun (`SynOrder`, `Fresh`, `FinAfterSyn`), and `FinSent`: a side that has given up a stream the
  other still holds has sent the other a FIN. `SessionStreamsSteps` shows of every step of one side
  that its own record stays in order and how its queues grow; `SessionStreamsProofs` adds the
  transport and the peer.
* **`StreamDataProofs`**: `DataTypeCorrect`, `BacklogIsBounded`, `RefinesByteStream`. The bytes
  under way form a chain: what was read, pipe, message of the pump, channel, transport, data queue,
  each beginning where the one before ends. The chain is cut where nothing passes any more: behind
  a pump that has stopped, behind a removed stream. FINs lie at or after the writer's end
  (`FinPlaces`), and permits add up to what is held (`Accounts`).
* **`ClientPoolProofs`**: `PoolTypeCorrect`, `SessionHasOneOwner`, `SessionIsNeverForgotten`,
  `PoolKeepsItsBound`. A
  session has one token, which turns from notification to receiving task to pool entry to caller
  to stream and back.
* **`PaddedLinkProofs`**: `PlTypeCorrect`, `NothingIsRefused`, `ReadIsSent`, `BothAgree`, for any
  schemes, any lengths of a header, a frame and an id, and any number of frames. `DecodedAsSent` needs
  of the bytes between the ends - in the transport, left of the packet, held back - that they are whole
  frames. `Carries` says so without recursion: every byte lies in a block of its own frame (`Block`),
  and a numbering of the bytes by the frames that end before them makes the blocks the frames that were
  sent and not read, in order, and waste. A frame is appended (`CarriesMore`) or read
  (`CarriesLess`); cutting a record off moves the border between packet and transport only (`CutJoin`);
  waste comes only where a packet is over, hence between frames (`RecordFacts`). `NeverRefused` then
  needs what each side sends (`Sends`) and that the Settings are first (`ClientOK`), `SettingsAgreed`
  what the server has answered (`ServerOK`); a step that leaves alone what these speak of keeps them
  (`ClientSame`, `ServerSame`).
* **`ClientSideProofs`**, of `Heartbeat`: `HbTypeCorrect`, `OneHeartbeatHolds`, `NoFalseAlarmHolds`,
  `StalledIsClosedHolds`. That a session is closed only after silence needs of every clock how it relates
  to the last frame heard: `Deadlines` (time left plus time since that frame is the whole limit, unless
  a frame was heard this instant) and `JustHeard`. The bound on silence, `MaxQuiet`, is a sum over
  tick, queue, the writes ahead, the own write and the answer; `Silence` says how much of it is used up
  wherever the one heartbeat is, and `Single` that there is only one to follow.
  Of `ClientApp`: `AppTypeCorrect`, `OneClientHolds`, `DetectedWholeHolds`. `AppInv` adds to `OneClient`
  that a call has no connection task before it listens, and of every connection (`Cell`) that a listener
  has peeked at no more than was sent. That no verdict changes when more arrives is `VerdictIsProtocol`, a
  lemma on prefixes of a request: what is no prefix of a method, nor a method of it, never becomes one.
* **`TunnelProofs`**: `TunTypeCorrect`, `CountedIsWrittenHolds`, `TunnelDeliversHolds`. A direction is a
  line of pieces, each beginning where the one before ends: received, the far relay's buffer, the stream,
  the near relay's buffer, what was sent (`Line`; a pending write is in the stream already). `Ends` says what an end of file met on that line means. An action touches one copier or one
  place, so the steps are proved for one direction (`OneDirection`) and used for both; the refinement
  then maps every action to a step of `ByteStream` up, down, or to a stutter.
* **`ServerSideProofs`**, of `ServerTasks`: `SrvTypeCorrect`, `DrainInTimeHolds`, `NothingLeftHolds`,
  `FinishedIsCountedHolds`, for any number of connections and streams and any limits. `Place` says what a
  connection has where it stands, `Account` what a stream has counted where it stands, `Clock` that
  what is left to a connection and what the server has waited are together no more than `ConnDrain`,
  because time does not pass while a cancelled task has not noticed.
  Of `TlsReload`: `TlsTypeCorrect`, `PairIsServed`: `TlsInv` adds that a half-done load has read a
  certificate that can be parsed, and that the watcher is told of no more changes than were made.
  Of `PanelSync`: `PanelTypeCorrect`, `BillingIsNeverOver`, `BytesAreNeverLost`. What was
  relayed is at least what was counted, plus what the pending report adds if the panel has not seen
  it, plus what the next report will say; for a client that stays, it is exactly that. `NetOK` says
  that of each process at most one report is unseen, and of the running one it is the pending one.

Checked by TLC only: the liveness properties, which under fairness are out of the prover's reach. The
safety invariants of every passing run are theorems; the `MCTypeOK` of a run is the conjunction of the
type invariants of its modules, each of which is one.

## Not modelled

* **Conversions without state**: the packet codec of UDP over TCP, the byte layout of frames, addresses
  and the authentication header, the text of settings, command lines, URLs and the JSON of the panel.
  Their correctness is that of one function on bytes, which the repository's tests reach.
* **Reports to the host**: `log_callback.rs`, `traffic_status.rs`, and the `TrafficCounter` that feeds
  it. Nothing of the program depends on them.
* **I/O in one line**: the bytes forwarded to a fallback server for connections that do not
  authenticate (`ServerTasks` has the task), `HttpStreamIo` (each poll goes on to the `StreamIo` inside),
  the TLS verifier.
* **External**: tokio, rustls, the file watcher, the HTTP proxy service, the panel and TCP are modelled
  as the code uses them, and marked so in `PROJECT.json`.
* **Beyond any instance**: counters that saturate at 2^64, and the end of the panel's sequence numbers.
