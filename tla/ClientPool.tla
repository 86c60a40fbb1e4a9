----------------------------- MODULE ClientPool -----------------------------
(***************************************************************************)
(* Client: create_stream, the pool of idle sessions, and the tasks around  *)
(* each session - the one that receives its idle notifications and puts it *)
(* in the pool, the one that shuts it down with the client, the age timer, *)
(* the cleanup ticker.                                                     *)
(*                                                                         *)
(* A session is what the pool sees of it: SessionStreams shows how its one *)
(* stream is finished or its transport fails, here either may happen at    *)
(* any time.  Actions are split where the code awaits a lock or a message. *)
(***************************************************************************)
EXTENDS Naturals, FiniteSets

CONSTANTS
  MaxSessions,   \* sessions the client makes in all
  Callers,       \* tasks that call create_stream
  MaxIdle,       \* MAX_IDLE_SESSIONS
  Ages,          \* is max_session_age non-zero?
  None           \* no caller, no session

ASSUME PoolAssumption ==
  /\ MaxSessions \in Nat /\ MaxIdle \in Nat
  /\ Ages \in BOOLEAN
  /\ None \notin Callers /\ None \notin Nat

VARIABLES
  ses,       \* the sessions, by the sequence number create_session gives them
  pool,      \* idle_pool: how many entries each session has in it
  call,      \* where each caller stands
  closing,   \* the client's close_token is cancelled
  drain,     \* Client::shutdown has yet to empty the pool
  lost       \* history: sessions whose caller was dropped before it had a stream

vars == <<ses, pool, call, closing, drain, lost>>

Sessions == 1 .. MaxSessions

SessionType ==
  [state   : {"none", "new", "live", "gone"},   \* "new" until run, "gone" if never run
   closed  : BOOLEAN,
   expired : BOOLEAN,                           \* is_expired
   slot    : Callers \cup {None},               \* whose stream is the active one
   notes   : Nat,                               \* notifications in its idle channel
   task    : {"recv", "checked", "pool", "ended"},   \* the task that receives them
   watch   : BOOLEAN,                           \* the task that waits for the client to close
   timer   : BOOLEAN,                           \* do_wait_expiration
   reap    : BOOLEAN]                           \* a task was spawned to shut it down

CallType ==
  [pc : {"idle", "take", "reserve", "dial", "run", "fresh", "open", "failed", "using"},
   ses : Sessions \cup {None}]

Idle == [pc |-> "idle", ses |-> None]

Unmade ==
  [state |-> "none", closed |-> FALSE, expired |-> FALSE, slot |-> None, notes |-> 0,
   task |-> "ended", watch |-> FALSE, timer |-> FALSE, reap |-> FALSE]

Init ==
  /\ ses = [s \in Sessions |-> Unmade]
  /\ pool = [s \in Sessions |-> 0]
  /\ call = [c \in Callers |-> Idle]
  /\ closing = FALSE /\ drain = FALSE /\ lost = {}

-----------------------------------------------------------------------------
(* Sessions.                                                               *)

Made(s) == ses[s].state \in {"new", "live"}

Shutdown(r) == [r EXCEPT !.closed = TRUE]

\* Mutant: the session is announced whether or not it was this call that removed the stream.
RemoveUnchecked(r, c) ==
  IF r.expired THEN Shutdown([r EXCEPT !.slot = None])
  ELSE [r EXCEPT !.slot = None, !.notes = @ + 1]

\* remove_stream_by_id for the stream of caller c: the session, now idle, is shut down if
\* it has expired, and announced to the pool otherwise.
Remove(r, c) ==
  IF r.slot # c THEN r
  ELSE IF r.expired THEN Shutdown([r EXCEPT !.slot = None])
  ELSE [r EXCEPT !.slot = None, !.notes = @ + 1]

\* Spawn a task for each of S that shuts it down.
Reaping(S) == [s \in Sessions |-> IF s \in S THEN [ses[s] EXCEPT !.reap = TRUE] ELSE ses[s]]

\* The stream is finished, reset or rejected.
StreamEnds(s) ==
  /\ ses[s].slot # None
  /\ ses' = [ses EXCEPT ![s] = Remove(@, ses[s].slot)]
  /\ UNCHANGED <<pool, call, closing, drain, lost>>

\* The transport fails, a heartbeat is not answered, a close handshake times out.
SessionCloses(s) ==
  /\ Made(s) /\ ~ses[s].closed
  /\ ses' = [ses EXCEPT ![s] = Shutdown(@)]
  /\ UNCHANGED <<pool, call, closing, drain, lost>>

\* The rest of Session::shutdown: the active stream goes, and nobody is told.
Drain(s) ==
  /\ ses[s].closed /\ ses[s].slot # None
  /\ ses' = [ses EXCEPT ![s] = [@ EXCEPT !.slot = None]]
  /\ UNCHANGED <<pool, call, closing, drain, lost>>

Expire(s) ==
  /\ Ages /\ Made(s) /\ ~ses[s].expired
  /\ ses' = [ses EXCEPT ![s] = [@ EXCEPT !.expired = TRUE]]
  /\ UNCHANGED <<pool, call, closing, drain, lost>>

\* Mutant: the age is only looked at when a stream is removed.
WaitExpirationNever(s) ==
  /\ ses[s].timer /\ ses[s].closed
  /\ ses' = [ses EXCEPT ![s] = [@ EXCEPT !.timer = FALSE]]
  /\ UNCHANGED <<pool, call, closing, drain, lost>>

\* do_wait_expiration: the session is shut down if it is idle at that moment; the task
\* ends in any case.
WaitExpiration(s) ==
  /\ ses[s].timer /\ (ses[s].closed \/ ses[s].expired)
  /\ LET r == [ses[s] EXCEPT !.timer = FALSE]
     IN  ses' = [ses EXCEPT ![s] = IF r.slot = None THEN Shutdown(r) ELSE r]
  /\ UNCHANGED <<pool, call, closing, drain, lost>>

\* A task spawned to shut the session down runs.
Reap(s) ==
  /\ ses[s].reap
  /\ ses' = [ses EXCEPT ![s] = Shutdown([@ EXCEPT !.reap = FALSE])]
  /\ UNCHANGED <<pool, call, closing, drain, lost>>

-----------------------------------------------------------------------------
(* The tasks create_session spawns.                                        *)

\* Mutant: the watcher ends as soon as the session is handed over.
WatchShort(s) ==
  /\ ses[s].watch /\ (ses[s].closed \/ ses[s].state = "live")
  /\ ses' = [ses EXCEPT ![s] = [@ EXCEPT !.watch = FALSE]]
  /\ UNCHANGED <<pool, call, closing, drain, lost>>

\* The client closes and takes the session with it, or the session closes first.  A
\* session that was dropped before it ran is not there to be shut down.
Watch(s) ==
  /\ ses[s].watch /\ (closing \/ ses[s].closed)
  /\ LET r == [ses[s] EXCEPT !.watch = FALSE]
     IN  ses' = [ses EXCEPT ![s] = IF r.state = "gone" THEN r ELSE Shutdown(r)]
  /\ UNCHANGED <<pool, call, closing, drain, lost>>

\* A notification is received: a closing client shuts the session down, a closed session
\* is ignored, and is_idle waits for the lock.
ReceiveIdle(s) ==
  /\ ses[s].task = "recv" /\ ses[s].notes > 0
  /\ LET r == [ses[s] EXCEPT !.notes = @ - 1]
     IN  ses' = [ses EXCEPT ![s] =
                   IF closing THEN Shutdown([r EXCEPT !.task = "ended"])
                   ELSE IF r.closed THEN r
                   ELSE [r EXCEPT !.task = "checked"]]
  /\ UNCHANGED <<pool, call, closing, drain, lost>>

\* A session in use is ignored, an expired one shut down; else the pool's lock is awaited.
CheckIdle(s) ==
  /\ ses[s].task = "checked"
  /\ ses' = [ses EXCEPT ![s] =
               IF @.slot # None THEN [@ EXCEPT !.task = "recv"]
               ELSE IF @.expired THEN Shutdown([@ EXCEPT !.task = "recv"])
               ELSE [@ EXCEPT !.task = "pool"]]
  /\ UNCHANGED <<pool, call, closing, drain, lost>>

Entries == UNION {{s} \X (1 .. pool[s]) : s \in Sessions}
PoolSize == Cardinality(Entries)

\* Mutant: one entry too many.
EnterPoolOver(s) ==
  /\ ses[s].task = "pool"
  /\ LET enters == pool[s] = 0 /\ PoolSize <= MaxIdle
         excess == pool[s] = 0 /\ ~enters
         r == [ses[s] EXCEPT !.task = "recv"]
     IN  /\ pool' = IF enters THEN [pool EXCEPT ![s] = 1] ELSE pool
         /\ ses' = [ses EXCEPT ![s] = IF excess THEN Shutdown(r) ELSE r]
  /\ UNCHANGED <<call, closing, drain, lost>>

\* Mutant: a session the pool has no room for is let go without being shut down.
EnterPoolLoose(s) ==
  /\ ses[s].task = "pool"
  /\ pool' = IF pool[s] = 0 /\ PoolSize < MaxIdle THEN [pool EXCEPT ![s] = 1] ELSE pool
  /\ ses' = [ses EXCEPT ![s] = [@ EXCEPT !.task = "recv"]]
  /\ UNCHANGED <<call, closing, drain, lost>>

\* Under the lock: a session already there is not entered again, one for which there is
\* no room is shut down.
EnterPool(s) ==
  /\ ses[s].task = "pool"
  /\ LET enters == pool[s] = 0 /\ PoolSize < MaxIdle
         excess == pool[s] = 0 /\ ~enters
         r == [ses[s] EXCEPT !.task = "recv"]
     IN  /\ pool' = IF enters THEN [pool EXCEPT ![s] = 1] ELSE pool
         /\ ses' = [ses EXCEPT ![s] = IF excess THEN Shutdown(r) ELSE r]
  /\ UNCHANGED <<call, closing, drain, lost>>

-----------------------------------------------------------------------------
(* create_stream.                                                          *)

\* ensure_running; then the pool's lock is awaited.
Start(c) ==
  /\ call[c].pc = "idle" /\ ~closing
  /\ call' = [call EXCEPT ![c].pc = "take"]
  /\ UNCHANGED <<ses, pool, closing, drain, lost>>

Pooled == {s \in Sessions : pool[s] > 0}
Usable(s) == ~ses[s].closed /\ ~ses[s].expired

\* take_idle: the usable entry with the smallest number; the closed and expired ones met
\* before it are taken out and shut down.
TakeIdle(c) ==
  /\ call[c].pc = "take"
  /\ LET good == {s \in Pooled : Usable(s)}
     IN  \/ /\ good = {}
            /\ pool' = [s \in Sessions |-> 0]
            /\ ses' = Reaping(Pooled)
            /\ call' = [call EXCEPT ![c].pc = "dial"]
         \/ \E s \in good :
              /\ \A t \in good : s <= t
              /\ pool' = [t \in Sessions |-> IF t <= s THEN 0 ELSE pool[t]]
              /\ ses' = Reaping({t \in Pooled : t < s})
              /\ call' = [call EXCEPT ![c] = [pc |-> "reserve", ses |-> s]]
  /\ UNCHANGED <<closing, drain, lost>>

\* reserve_stream, under the session's lock.  A pooled session that cannot be had is
\* forgotten and a new one dialled; a new one that cannot be had is an error.
Reserve(c) ==
  /\ call[c].pc \in {"reserve", "fresh"}
  /\ LET s == call[c].ses
     IN  IF Usable(s) /\ ses[s].slot = None
         THEN /\ ses' = [ses EXCEPT ![s] = [@ EXCEPT !.slot = c]]
              /\ call' = [call EXCEPT ![c].pc = "open"]
         ELSE /\ call' = [call EXCEPT ![c] = IF call[c].pc = "fresh" THEN Idle
                                             ELSE [pc |-> "dial", ses |-> None]]
              /\ UNCHANGED ses
  /\ UNCHANGED <<pool, closing, drain, lost>>

\* The dialer fails, takes too long, or the client closes.
DialFails(c) ==
  /\ call[c].pc = "dial"
  /\ call' = [call EXCEPT ![c] = Idle]
  /\ UNCHANGED <<ses, pool, closing, drain, lost>>

\* create_session: the session gets the next number, and its tasks are spawned.
Connect(c) ==
  /\ call[c].pc = "dial"
  /\ \E s \in Sessions :
       /\ ses[s].state = "none" /\ \A t \in 1 .. s - 1 : ses[t].state # "none"
       /\ ses' = [ses EXCEPT ![s] = [Unmade EXCEPT !.state = "new", !.task = "recv",
                                                   !.watch = TRUE]]
       /\ call' = [call EXCEPT ![c] = [pc |-> "run", ses |-> s]]
  /\ UNCHANGED <<pool, closing, drain, lost>>

\* Session::run has sent the settings and spawned the receive loop, which keeps the
\* session from then on; then ensure_running.
Run(c) ==
  /\ call[c].pc = "run"
  /\ ses' = [ses EXCEPT ![call[c].ses] = [@ EXCEPT !.state = "live", !.timer = Ages]]
  /\ call' = [call EXCEPT ![c] = IF closing THEN Idle ELSE [@ EXCEPT !.pc = "fresh"]]
  /\ UNCHANGED <<pool, closing, drain, lost>>

\* The session that was never run is dropped.
Dropped(s) == [ses EXCEPT ![s] = [@ EXCEPT !.state = "gone", !.task = "ended"]]

\* run fails or takes too long, or the client closes.
RunFails(c) ==
  /\ call[c].pc = "run"
  /\ ses' = Dropped(call[c].ses)
  /\ call' = [call EXCEPT ![c] = Idle]
  /\ UNCHANGED <<pool, closing, drain, lost>>

\* open_reserved_stream: the SYN was written and the session is not closed.
Opened(c) ==
  /\ call[c].pc = "open" /\ ~ses[call[c].ses].closed
  /\ call' = [call EXCEPT ![c].pc = "using"]
  /\ UNCHANGED <<ses, pool, closing, drain, lost>>

\* The SYN was not written, or the session was closed meanwhile: the stream is removed,
\* and then the session shut down.
OpenFails(c) ==
  /\ call[c].pc = "open"
  /\ ses' = [ses EXCEPT ![call[c].ses] = Remove(@, c)]
  /\ call' = [call EXCEPT ![c].pc = "failed"]
  /\ UNCHANGED <<pool, closing, drain, lost>>

OpenFailed(c) ==
  /\ call[c].pc = "failed"
  /\ ses' = [ses EXCEPT ![call[c].ses] = Shutdown(@)]
  /\ call' = [call EXCEPT ![c] = Idle]
  /\ UNCHANGED <<pool, closing, drain, lost>>

\* The caller is done with its stream, which may be active for some time yet.
Done(c) ==
  /\ call[c].pc = "using"
  /\ call' = [call EXCEPT ![c] = Idle]
  /\ UNCHANGED <<ses, pool, closing, drain, lost>>

\* The future of create_stream is dropped, with what it holds.
Cancel(c) ==
  /\ call[c].pc \notin {"idle", "using"}
  /\ ses' = IF call[c].pc = "run" THEN Dropped(call[c].ses) ELSE ses
  /\ lost' = IF call[c].pc \in {"reserve", "fresh"} THEN lost \cup {call[c].ses} ELSE lost
  /\ call' = [call EXCEPT ![c] = Idle]
  /\ UNCHANGED <<pool, closing, drain>>

-----------------------------------------------------------------------------
(* The pool's upkeep.                                                      *)

\* cleanup, at a tick: the expired entries go, and those that have been in the pool for
\* longer than idle_timeout.
Cleanup ==
  /\ \E out \in SUBSET Pooled :
       /\ out # {} /\ {s \in Pooled : ses[s].expired} \subseteq out
       /\ pool' = [s \in Sessions |-> IF s \in out THEN 0 ELSE pool[s]]
       /\ ses' = Reaping(out)
  /\ UNCHANGED <<call, closing, drain, lost>>

\* Client::shutdown: the token is cancelled, then the pool emptied under its lock.
ClientShutdown ==
  /\ ~closing
  /\ closing' = TRUE /\ drain' = TRUE
  /\ UNCHANGED <<ses, pool, call, lost>>

DrainPool ==
  /\ drain
  /\ drain' = FALSE
  /\ pool' = [s \in Sessions |-> 0]
  /\ ses' = Reaping(Pooled)
  /\ UNCHANGED <<call, closing, lost>>

-----------------------------------------------------------------------------
SessionStep(s) == StreamEnds(s) \/ SessionCloses(s) \/ Drain(s) \/ Expire(s)

TaskStep(s) ==
  \/ WaitExpiration(s) \/ Reap(s) \/ Watch(s)
  \/ ReceiveIdle(s) \/ CheckIdle(s) \/ EnterPool(s)

CallStep(c) ==
  \/ Start(c) \/ TakeIdle(c) \/ Reserve(c) \/ DialFails(c) \/ Connect(c) \/ Run(c)
  \/ RunFails(c) \/ Opened(c) \/ OpenFails(c) \/ OpenFailed(c) \/ Done(c) \/ Cancel(c)

PoolStep == Cleanup \/ ClientShutdown \/ DrainPool

Next ==
  \/ \E s \in Sessions : SessionStep(s) \/ TaskStep(s)
  \/ \E c \in Callers : CallStep(c)
  \/ PoolStep

Spec == Init /\ [][Next]_vars

\* Tasks run, timers fire, dials and writes end at their deadlines, and what stays in the
\* pool gets older than idle_timeout.  No stream need end, no transport fail, and nobody
\* need call.
Fairness ==
  /\ \A s \in 1 .. MaxSessions :
       /\ WF_vars(Drain(s)) /\ WF_vars(Expire(s)) /\ WF_vars(WaitExpiration(s))
       /\ WF_vars(Reap(s)) /\ WF_vars(Watch(s)) /\ WF_vars(ReceiveIdle(s))
       /\ WF_vars(CheckIdle(s)) /\ WF_vars(EnterPool(s))
  /\ \A c \in Callers :
       /\ WF_vars(TakeIdle(c)) /\ WF_vars(Reserve(c)) /\ WF_vars(Connect(c) \/ DialFails(c))
       /\ WF_vars(Run(c) \/ RunFails(c)) /\ WF_vars(Opened(c) \/ OpenFails(c))
       /\ WF_vars(OpenFailed(c))
  /\ WF_vars(Cleanup) /\ WF_vars(DrainPool)

FairSpec == Spec /\ Fairness

-----------------------------------------------------------------------------
(* Properties.                                                             *)

\* The client's state has the types client.rs gives it.
TypeOK ==
  /\ ses \in [Sessions -> SessionType]
  /\ pool \in [Sessions -> Nat]
  /\ call \in [Callers -> CallType]
  /\ closing \in BOOLEAN /\ drain \in BOOLEAN /\ lost \subseteq Sessions

\* Who has a session that has no stream: a caller on its way to reserve one.
Holds(c, s) == call[c].pc \in {"reserve", "run", "fresh"} /\ call[c].ses = s

\* Its notification, the task that received it, the pool, the task that shuts down what
\* was taken out of the pool, or a stream.
Tokens(r) ==
  r.notes + (IF r.task \in {"checked", "pool"} THEN 1 ELSE 0)
    + (IF r.reap THEN 1 ELSE 0) + (IF r.slot # None THEN 1 ELSE 0)
Places(s) == Tokens(ses[s]) + pool[s]

\* A session has one owner: it is announced, or being put in the pool, or in the pool
\* once, or about to be shut down, or with one caller that took it, or in use.  So no two
\* callers get the same session, one in use is not in the pool, what take_idle returns is
\* free, and what cleanup shuts down is nobody's (remove_stream_by_id, the idle receiver
\* in create_session, take_idle, cleanup).
OneOwner ==
  \A s \in Sessions :
    /\ Places(s) <= 1
    /\ \A c \in Callers :
         Holds(c, s) => Places(s) = 0 /\ \A d \in Callers : Holds(d, s) => d = c

\* The pool keeps to MAX_IDLE_SESSIONS, although size and entry are looked at by as many
\* tasks as there are sessions.
PoolBounded == PoolSize <= MaxIdle

\* A session that could be used again is never lost sight of: somebody has it, or it is on
\* its way to the pool (the idle receiver shuts down what it does not put in the pool).
\* There is one exception: a call of create_stream dropped after take_idle or run and
\* before it has reserved the stream.
NeverForgotten ==
  \A s \in Sessions \ lost :
    ~closing /\ Made(s) /\ Usable(s) =>
      Places(s) = 1 \/ \E c \in Callers : Holds(c, s)

\* After Client::shutdown every session is closed and the pool is empty, for good: also
\* the session being dialled, and the one whose receiver was past its check of the
\* close_token when the pool was emptied.  (closing is never taken back.)
ClientStops ==
  <>[](closing => /\ \A s \in Sessions : Made(s) => ses[s].closed
                  /\ Pooled = {})

\* A session that has expired and has no stream is closed, although nobody may know of it
\* any more because a call was dropped after take_idle (do_wait_expiration,
\* remove_stream_by_id).  Nothing reserves an expired session, so that it stays as it is
\* until it is closed, and "again and again" says "at last".
ExpiredIdleCloses ==
  []<>(\A s \in 1 .. MaxSessions :
         ses[s].state = "live" /\ ses[s].expired /\ ses[s].slot = None => ses[s].closed)
=============================================================================
