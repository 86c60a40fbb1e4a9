------------------------------ MODULE TlsReload ------------------------------
(***************************************************************************)
(* The server's certificate and private key: the watch on the two files,   *)
(* the load at the start and reload_tls_on_events.  Somebody replaces the  *)
(* files one at a time, at any time, also between the two reads of a load. *)
(*                                                                         *)
(* A file holds a version, or 0 when it is missing or cannot be parsed; a  *)
(* certificate and a key match when they are of one version.  How long the *)
(* debounce takes does not matter here: it ends at any time.               *)
(***************************************************************************)
EXTENDS Naturals, Sequences

CONSTANTS
  Versions,   \* what a file may hold, but for 0
  MaxEdits,   \* how often the files are changed
  MaxOthers   \* how many other events the watcher sends

ASSUME TlsAssumption ==
  Versions # {} /\ Versions \subseteq Nat \ {0} /\ MaxEdits \in Nat /\ MaxOthers \in Nat

VARIABLES
  disk,    \* the two files, and how often they may still be changed
  seen,    \* changes the watcher has been told of and has not sent
  events,  \* the watcher's channel
  task,    \* run_server until the listener is there, then reload_tls_on_events
  state    \* TlsState: a pair

tlsVars == <<disk, seen, events, task, state>>

Nothing == [cert |-> 0, key |-> 0]
Pair(v) == [cert |-> v, key |-> v]

TaskType == [pc     : {"watch", "first", "wait", "debounce", "reload", "ended"},
             half   : BOOLEAN,             \* tls_config has read the certificate
             cert   : Versions \cup {0}]   \* what it has read

TlsInit ==
  /\ LET v == CHOOSE v \in Versions : TRUE   \* the files may be changed before the start, too
     IN  disk = [cert |-> v, key |-> v, edits |-> MaxEdits, others |-> MaxOthers]
  /\ seen = 0 /\ events = <<>>
  /\ task = [pc |-> "watch", half |-> FALSE, cert |-> 0]
  /\ state = Nothing

At(pc) == task.pc = pc

-----------------------------------------------------------------------------
(* The files and the watcher.                                              *)

\* A file is written, replaced or removed.  The watcher is told if it is there yet.
Edit ==
  /\ disk.edits > 0
  /\ \E f \in {"cert", "key"}, v \in Versions \cup {0} :
       v # disk[f] /\ disk' = [disk EXCEPT ![f] = v, !.edits = @ - 1]
  /\ seen' = IF At("watch") THEN 0 ELSE seen + 1
  /\ UNCHANGED <<events, task, state>>

\* The watcher's callback sends the event.
Notify ==
  /\ seen > 0
  /\ seen' = seen - 1 /\ events' = Append(events, "tls")
  /\ UNCHANGED <<disk, task, state>>

\* An access, a change of another file of the directory, an error.
NotifyOther ==
  /\ disk.others > 0 /\ ~At("watch")
  /\ disk' = [disk EXCEPT !.others = @ - 1]
  /\ events' = Append(events, "other")
  /\ UNCHANGED <<seen, task, state>>

-----------------------------------------------------------------------------
(* tls_config.                                                             *)

Loading == At("first") \/ At("reload")

\* How a load ends: by what it was for.
Failed == IF At("first") THEN "ended" ELSE "wait"

ReadCert ==
  /\ Loading /\ ~task.half
  /\ task' = IF disk.cert = 0 THEN [task EXCEPT !.pc = Failed]
             ELSE [task EXCEPT !.half = TRUE, !.cert = disk.cert]
  /\ UNCHANGED <<disk, seen, events, state>>

\* Mutant: the key is not compared with the certificate.
WithSingleCertAny(cert, key) == key # 0

\* with_single_cert refuses a key that is not the certificate's.
WithSingleCert(cert, key) == key # 0 /\ key = cert

\* Mutant: the events that came during the load are taken to be about it.
ReadKeyDrains ==
  /\ Loading /\ task.half
  /\ state' = IF WithSingleCert(task.cert, disk.key) THEN [cert |-> task.cert, key |-> disk.key]
              ELSE state
  /\ task' = [pc |-> IF state' = Nothing THEN "ended" ELSE "wait", half |-> FALSE, cert |-> 0]
  /\ events' = <<>>
  /\ UNCHANGED <<disk, seen>>

\* The key is read: watch::channel for the first load, send_replace for a later one; a load
\* that fails ends the server before it has begun, and changes nothing later.
ReadKey ==
  /\ Loading /\ task.half
  /\ IF WithSingleCert(task.cert, disk.key)
     THEN /\ state' = [cert |-> task.cert, key |-> disk.key]
          /\ task' = [pc |-> "wait", half |-> FALSE, cert |-> 0]
     ELSE /\ task' = [pc |-> Failed, half |-> FALSE, cert |-> 0]
          /\ UNCHANGED state
  /\ UNCHANGED <<disk, seen, events>>

-----------------------------------------------------------------------------
(* run_server's start, and reload_tls_on_events.                           *)

\* watch_tls_files comes before the load.
WatchTlsFiles ==
  /\ At("watch")
  /\ task' = [task EXCEPT !.pc = "first"]
  /\ UNCHANGED <<disk, seen, events, state>>

Recv == events # <<>> /\ events' = Tail(events)

\* The first event that event_affects_tls_files starts the debounce; others are skipped.
WaitEvent ==
  /\ At("wait") /\ Recv
  /\ task' = [task EXCEPT !.pc = IF Head(events) = "tls" THEN "debounce" ELSE "wait"]
  /\ UNCHANGED <<disk, seen, state>>

\* An event while it runs is taken; it may put off its end.
DebounceEvent ==
  /\ At("debounce") /\ Recv
  /\ UNCHANGED <<disk, seen, task, state>>

\* The load starts; what the channel holds stays there.
DebounceEnds ==
  /\ At("debounce")
  /\ task' = [task EXCEPT !.pc = "reload"]
  /\ UNCHANGED <<disk, seen, events, state>>

\* Cancelled, wherever it waits: a load that is under way has no effect any more.
ReloadCancelled ==
  /\ task.pc \in {"wait", "debounce", "reload"}
  /\ task' = [pc |-> "ended", half |-> FALSE, cert |-> 0]
  /\ UNCHANGED <<disk, seen, events, state>>

TlsStep ==
  \/ Notify \/ WatchTlsFiles \/ ReadCert \/ ReadKey \/ WaitEvent \/ DebounceEvent \/ DebounceEnds

TlsNext == TlsStep \/ Edit \/ NotifyOther \/ ReloadCancelled

TlsSpec == TlsInit /\ [][TlsNext]_tlsVars

\* The watcher delivers, the loads end and the debounce does.
TlsFairness ==
  /\ WF_tlsVars(Notify) /\ WF_tlsVars(WatchTlsFiles \/ ReadCert \/ ReadKey)
  /\ WF_tlsVars(WaitEvent) /\ WF_tlsVars(DebounceEnds)

-----------------------------------------------------------------------------
(* Properties.                                                             *)

\* A load that goes on to the key has a certificate (tls_config).
TlsTypeOK ==
  /\ disk \in [cert : Versions \cup {0}, key : Versions \cup {0}, edits : 0 .. MaxEdits,
               others : 0 .. MaxOthers]
  /\ seen \in 0 .. MaxEdits
  /\ events \in Seq({"tls", "other"})
  /\ task \in TaskType
  /\ task.half => task.cert # 0

\* From the first accept on there is a certificate with its own key to serve with, whatever
\* is done to the files and in whatever order (reload_tls_on_events, "keeping the current
\* configuration").
ServesAPair ==
  task.pc \in {"wait", "debounce", "reload"} => \E v \in Versions : state = Pair(v)

\* When the files are left alone with a pair in them the server comes to serve that one,
\* although they may have changed before the first load, during a load, or one of them long
\* before the other (watch_tls_files, reload_tls_on_events).  A server that does not start,
\* or is cancelled, is excepted.
Converges ==
  \A v \in Versions :
    <>[](disk.cert = v /\ disk.key = v) => <>[](state = Pair(v) \/ task.pc \in {"watch", "ended"})
=============================================================================
